---------------------------- MODULE Spec2Model ----------------------------
(***************************************************************************)
(* Model of the Mr. French chat backend: the LangGraph pipeline of         *)
(* conversation_flow.py, the HTTP handlers of main.py, the task store of   *)
(* supabase_service.py, the history log of chroma_service.py and the task  *)
(* action handler of mrfrench_agent.py.                                    *)
(*                                                                         *)
(* Text values (Python str) are sequences of string tokens; an f-string is *)
(* the concatenation of its pieces.  Task names are spelled character by   *)
(* character so that lower(), strip(), the `in` test and difflib's ratio   *)
(* are computed, not assumed.                                              *)
(***************************************************************************)
EXTENDS Integers, Sequences, FiniteSets, TLC

(***************************************************************************)
(* Bounds of the model.                                                    *)
(***************************************************************************)
MaxRequests == 2

(***************************************************************************)
(* Python str helpers.                                                     *)
(***************************************************************************)
T(s) == <<s>>

\* Python None, kept apart from the string 'None'.
NONE == <<"<None>">>
\* SQL NULL of a column no value was supplied for.
NULL == <<"<null>">>

\* str.lower(), token by token.
LowerMap ==
    "A" :> "a" @@ "B" :> "b" @@ "C" :> "c" @@ "X" :> "x" @@ "Y" :> "y" @@
    "Today" :> "today" @@ "Tomorrow" :> "tomorrow" @@ "Tonight" :> "tonight" @@
    "Evening" :> "evening" @@ "Unknown" :> "unknown" @@ "None" :> "none" @@
    "Monday" :> "monday" @@ "Tuesday" :> "tuesday" @@ "Wednesday" :> "wednesday" @@
    "Thursday" :> "thursday" @@ "Friday" :> "friday" @@ "Saturday" :> "saturday" @@
    "Sunday" :> "sunday" @@ "Daily" :> "daily" @@ "Midnight" :> "midnight"

lower(s) == [i \in 1..Len(s) |-> IF s[i] \in DOMAIN LowerMap THEN LowerMap[s[i]] ELSE s[i]]

RECURSIVE lstrip(_)
lstrip(s) == IF s # <<>> /\ Head(s) = " " THEN lstrip(Tail(s)) ELSE s

RECURSIVE rstrip(_)
rstrip(s) == IF s # <<>> /\ s[Len(s)] = " " THEN rstrip(SubSeq(s, 1, Len(s) - 1)) ELSE s

\* str.strip()
strip(s) == lstrip(rstrip(s))

\* Python's `sub in s`.
Contains(s, sub) ==
    \E i \in 1..(Len(s) - Len(sub) + 1) : SubSeq(s, i, i + Len(sub) - 1) = sub

\* Code points, for Python's ordering of the strings difflib compares.
Ord ==
    " " :> 32 @@ "A" :> 65 @@ "B" :> 66 @@ "C" :> 67 @@ "X" :> 88 @@ "Y" :> 89 @@
    "a" :> 97 @@ "b" :> 98 @@ "c" :> 99 @@ "x" :> 120 @@ "y" :> 121

\* Python's s < t on strings.
RECURSIVE StrLess(_, _)
StrLess(s, t) ==
    IF t = <<>> THEN FALSE
    ELSE IF s = <<>> THEN TRUE
    ELSE IF Ord[Head(s)] # Ord[Head(t)] THEN Ord[Head(s)] < Ord[Head(t)]
    ELSE StrLess(Tail(s), Tail(t))

\* The element of a singleton; {e(x) : x \in {v}} computes v once for all
\* its uses in e.
Only(S) == CHOOSE x \in S : TRUE

(***************************************************************************)
(* difflib.SequenceMatcher(a, b).ratio(): Ratcliff/Obershelp.  The longest *)
(* common block is taken (earliest in a, then earliest in b), then the     *)
(* pieces to its left and to its right are matched recursively.            *)
(***************************************************************************)
RECURSIVE CommonRun(_, _, _, _, _, _)
CommonRun(a, b, i, j, ahi, bhi) ==
    IF i < ahi /\ j < bhi /\ a[i] = b[j]
    THEN 1 + CommonRun(a, b, i + 1, j + 1, ahi, bhi)
    ELSE 0

\* find_longest_match(alo, ahi, blo, bhi): <<i, j, k>>, half-open ranges.
find_longest_match(a, b, alo, ahi, blo, bhi) ==
    LET cand == {<<i, j, CommonRun(a, b, i, j, ahi, bhi)>> :
                    i \in alo..(ahi - 1), j \in blo..(bhi - 1)}
        best(c) == {p \in c :
                    /\ p[3] > 0
                    /\ \A q \in c :
                         \/ q[3] < p[3]
                         \/ q[3] = p[3] /\ (q[1] > p[1] \/ (q[1] = p[1] /\ q[2] >= p[2]))}
    IN  Only({IF bs = {} THEN <<alo, blo, 0>> ELSE Only(bs) : bs \in {best(c) : c \in {cand}}})

RECURSIVE MatchedChars(_, _, _, _, _, _)
MatchedChars(a, b, alo, ahi, blo, bhi) ==
    Only({IF m[3] = 0 THEN 0
          ELSE m[3] + MatchedChars(a, b, alo, m[1], blo, m[2])
                    + MatchedChars(a, b, m[1] + m[3], ahi, m[2] + m[3], bhi) :
          m \in {find_longest_match(a, b, alo, ahi, blo, bhi)}})

\* ratio() >= cutoff, with ratio = 2.0 * matches / (len(a) + len(b)) and the
\* cutoff given in hundredths; two empty strings have ratio 1.0.
RatioAtLeast(a, b, cutoffPct) ==
    LET total == Len(a) + Len(b)
    IN  IF total = 0 THEN TRUE
        ELSE 200 * MatchedChars(a, b, 1, Len(a) + 1, 1, Len(b) + 1) >= cutoffPct * total

\* ratio(a, b) > ratio(c, d), compared as fractions.
RatioPair(a, b) ==
    LET total == Len(a) + Len(b)
    IN  IF total = 0 THEN <<1, 1>>
        ELSE <<2 * MatchedChars(a, b, 1, Len(a) + 1, 1, Len(b) + 1), total>>


(***************************************************************************)
(* State.                                                                  *)
(***************************************************************************)
VARIABLES
    tasks,          \* rows of the Supabase table "tasks"
    nextTaskId,     \* the id Supabase gives the next inserted row
    clock,          \* datetime.now(timezone.utc), one tick per store write
    history,        \* ChromaDB: collection name -> documents, in insertion order
    nextMsgId,      \* stands for uuid.uuid4(): never the same value twice
    pc,             \* position of the request being handled
    req,            \* the handler that is running and its arguments
    state,          \* the AgentState threaded through the graph nodes
    trace,          \* the graph nodes executed for this request, in order
    llm_raw,        \* what the analysis LLM call produced for this request
    llm_gen,        \* what the reply-generation LLM call produced for this request
    llm_in,         \* the message list handed to the analysis LLM call
    gen_in,         \* the message list handed to the reply-generation LLM call
    response,       \* what the handler returns to its caller
    env,            \* availability of Supabase and ChromaDB during the request
    nreq,           \* requests handled so far
    tasks0,         \* the task table when the request arrived
    history0,       \* the collections when the request arrived
    _timmy_zone,    \* MrFrenchAgent._timmy_zone, the class attribute
    timmy,          \* zone of the row id 1 of the Supabase table "timmy", NULL when there is no row
    other           \* the requests served at the same time as the one pc follows

storeVars == <<tasks, nextTaskId, clock, history, nextMsgId>>
zoneVars  == <<_timmy_zone, timmy>>
reqVars   == <<pc, req, state, trace, llm_raw, llm_gen, llm_in, gen_in, response, env, nreq, tasks0, history0>>
vars      == <<tasks, nextTaskId, clock, history, nextMsgId,
               pc, req, state, trace, llm_raw, llm_gen, llm_in, gen_in, response, env, nreq, tasks0, history0,
               _timmy_zone, timmy, other>>

(***************************************************************************)
(* Python dict helpers: a dict is a function from its keys.                *)
(***************************************************************************)
Has(d, k) == k \in DOMAIN d

\* d.get(k, default)
Get(d, k, default) == IF k \in DOMAIN d THEN d[k] ELSE default

\* Truthiness of a str-or-None value.
Truthy(v) == v # NONE /\ v # <<>>

\* f"{v}": None prints as 'None'.
Str(v) == IF v = NONE THEN T("None") ELSE v

(***************************************************************************)
(* supabase_service.py                                                     *)
(***************************************************************************)
SIMILARITY_THRESHOLD == 80

TaskColumns == {"task", "is_completed", "Due_Date", "Due_Time", "Reward"}

RECURSIVE OrderByUpdatedAtDesc(_)
OrderByUpdatedAtDesc(rows) ==
    IF rows = {} THEN <<>>
    ELSE LET r == CHOOSE r \in rows :
                    \A q \in rows : q.updatedAt < r.updatedAt \/ (q.updatedAt = r.updatedAt /\ q.id >= r.id)
         IN  <<r>> \o OrderByUpdatedAtDesc(rows \ {r})

RECURSIVE OrderById(_)
OrderById(rows) ==
    IF rows = {} THEN <<>>
    ELSE LET r == CHOOSE r \in rows : \A q \in rows : q.id >= r.id
         IN  <<r>> \o OrderById(rows \ {r})

\* get_tasks(status): [] when the query raises; status NONE means no filter.
get_tasks(tbl, status, dbUp) ==
    IF ~dbUp THEN <<>>
    ELSE OrderByUpdatedAtDesc({r \in tbl : status = NONE \/ r.is_completed = status})

Range(s) == {s[i] : i \in 1..Len(s)}

\* difflib.get_close_matches(word, possibilities, n=1, cutoff): the best
\* (ratio, candidate) pair, ties going to the greater candidate string.
get_close_matches(word, possibilities, cutoffPct) ==
    LET scored == {<<x, RatioPair(x, w)>> : x \in Range(possibilities), w \in {word}}
        ok(sc) == {p \in sc : 100 * p[2][1] >= cutoffPct * p[2][2]}
        Better(p, q) ==   \* (ratio(p), p) > (ratio(q), q)
            \/ p[2][1] * q[2][2] > q[2][1] * p[2][2]
            \/ p[2][1] * q[2][2] = q[2][1] * p[2][2] /\ StrLess(q[1], p[1])
    IN  Only({IF result_list = {} THEN <<>>
              ELSE <<(CHOOSE p \in result_list : \A q \in result_list \ {p} : Better(p, q))[1]>> :
              result_list \in {ok(sc) : sc \in {scored}}})

\* find_similar_task(task_name): <<>> for None, else <<row>>.
find_similar_task(tbl, task_name, dbUp) ==
    LET task_names(all_tasks) == [i \in 1..Len(all_tasks) |-> lower(all_tasks[i].task)]
        first(all_tasks, matches) ==
            IF matches = <<>> THEN <<>>
            ELSE LET hits == {i \in 1..Len(all_tasks) : lower(all_tasks[i].task) = matches[1]}
                 IN  <<all_tasks[CHOOSE i \in hits : \A j \in hits : i <= j]>>
        among(all_tasks) ==
            Only({first(all_tasks, matches) :
                  matches \in {get_close_matches(w, names, SIMILARITY_THRESHOLD) :
                                  w \in {lower(task_name)}, names \in {task_names(all_tasks)}}})
    IN  Only({among(all_tasks) : all_tasks \in {get_tasks(tbl, NONE, dbUp)}})

\* find_task_by_name(task_name): ilike without wildcards, then the exact filter.
find_task_by_name(tbl, task_name, dbUp) ==
    IF ~dbUp THEN <<>>
    ELSE OrderById({r \in tbl :
                      /\ lower(r.task) = lower(task_name)
                      /\ lower(strip(r.task)) = lower(strip(task_name))})

\* The row Supabase stores for an insert of task_data.
NewRow(task_data, id, now) ==
    [id           |-> id,
     task         |-> task_data["task"],
     is_completed |-> Get(task_data, "is_completed", NULL),
     Due_Date     |-> Get(task_data, "Due_Date", NULL),
     Due_Time     |-> Get(task_data, "Due_Time", NULL),
     Reward       |-> Get(task_data, "Reward", NULL),
     updatedAt    |-> now,
     recurrence   |-> NULL]

\* add_task(task_data): the outcome and the table afterwards.
\*   kind "raise": the exception leaves add_task (line 58 is outside its try)
\*   kind "error": a dict with the key 'error'
\*   kind "row":   the inserted row
add_task(tbl, task_data, id, now, dbUp) ==
    IF ~Has(task_data, "task") \/ task_data["task"] = NONE
    THEN [kind |-> "raise", error |-> T("exception"), tbl |-> tbl]
    ELSE IF find_similar_task(tbl, task_data["task"], dbUp) # <<>>
    THEN [kind |-> "error", error |-> T("This task already exists."), tbl |-> tbl]
    ELSE IF ~dbUp
    THEN [kind |-> "error", error |-> T("exception"), tbl |-> tbl]
    ELSE [kind |-> "row", row |-> NewRow(task_data, id, now),
          tbl |-> tbl \cup {NewRow(task_data, id, now)}]

\* An update that writes the columns but keeps the old updatedAt.
ApplyUpdates_stale(r, updates, now) ==
    [id           |-> r.id,
     task         |-> Get(updates, "task", r.task),
     is_completed |-> Get(updates, "is_completed", r.is_completed),
     Due_Date     |-> Get(updates, "Due_Date", r.Due_Date),
     Due_Time     |-> Get(updates, "Due_Time", r.Due_Time),
     Reward       |-> Get(updates, "Reward", r.Reward),
     updatedAt    |-> r.updatedAt,
     recurrence   |-> r.recurrence]

\* The row after UPDATE ... SET updates (updatedAt included by the caller).
ApplyUpdates(r, updates, now) ==
    [id           |-> r.id,
     task         |-> Get(updates, "task", r.task),
     is_completed |-> Get(updates, "is_completed", r.is_completed),
     Due_Date     |-> Get(updates, "Due_Date", r.Due_Date),
     Due_Time     |-> Get(updates, "Due_Time", r.Due_Time),
     Reward       |-> Get(updates, "Reward", r.Reward),
     updatedAt    |-> now,
     recurrence   |-> r.recurrence]

\* update_task(task_id, task_name, updates); task_id 0 and task_name NONE
\* stand for the arguments left out.
update_task(tbl, task_id, task_name, updates, now, dbUp) ==
    IF task_id = 0 /\ ~Truthy(task_name)
    THEN [kind |-> "error", error |-> T("Either task_id or task_name must be provided for update."), tbl |-> tbl]
    ELSE IF DOMAIN updates = {}
    THEN [kind |-> "error", error |-> T("No updates provided."), tbl |-> tbl]
    ELSE LET found == IF task_id = 0 THEN find_task_by_name(tbl, task_name, dbUp) ELSE <<>>
             target == IF task_id # 0 THEN task_id
                       ELSE IF found # <<>> THEN found[1].id ELSE 0
             hit == {r \in tbl : r.id = target}
         IN  IF target = 0
             THEN [kind |-> "error", error |-> T("No task found with name"), tbl |-> tbl]
             ELSE IF ~dbUp
             THEN [kind |-> "error", error |-> T("exception"), tbl |-> tbl]
             ELSE IF hit = {}
             THEN [kind |-> "error", error |-> T("Failed to update task"), tbl |-> tbl]
             ELSE LET r == CHOOSE r \in hit : TRUE
                  IN  [kind |-> "row", row |-> ApplyUpdates(r, updates, now),
                       tbl |-> (tbl \ {r}) \cup {ApplyUpdates(r, updates, now)}]

\* delete_task(task_id, task_name): by id, or every row whose name contains
\* task_name (ilike '%name%').
delete_task(tbl, task_id, task_name, dbUp) ==
    IF task_id = 0 /\ ~Truthy(task_name)
    THEN [kind |-> "error", error |-> T("Either task_id or task_name must be provided for deletion."), tbl |-> tbl]
    ELSE IF ~dbUp
    THEN [kind |-> "error", error |-> T("exception"), tbl |-> tbl]
    ELSE LET gone == IF task_id # 0 THEN {r \in tbl : r.id = task_id}
                     ELSE {r \in tbl : Contains(lower(r.task), lower(task_name))}
         IN  IF gone = {}
             THEN [kind |-> "error",
                   error |-> IF task_id # 0 THEN T("Failed to delete task") ELSE T("No task found with name"),
                   tbl |-> tbl]
             ELSE [kind |-> "success", tbl |-> tbl \ gone]

\* delete_all_tasks()
delete_all_tasks(tbl) == {}

(***************************************************************************)
(* chroma_service.py                                                       *)
(***************************************************************************)
ChatTypes == {"parent-timmy", "parent-mrfrench", "timmy-mrfrench"}

\* Every collection name the code passes to ChromaDB.
\* f"mrfrench-logs-{chat_type}" (main.py line 319).
log_collection ==
    [ct \in ChatTypes |->
        IF ct = "parent-timmy" THEN "mrfrench-logs-parent-timmy"
        ELSE IF ct = "parent-mrfrench" THEN "mrfrench-logs-parent-mrfrench"
        ELSE "mrfrench-logs-timmy-mrfrench"]

Collections ==
    ChatTypes \cup {"timmy-parent", "mrfrench-logs"} \cup {log_collection[ct] : ct \in ChatTypes}

\* A log that keeps one document per (content, role, sender): an equal older
\* document is dropped when the new one is added.
add_message_upsert(h, collection_name, message_content, role, sender, id, chromaUp) ==
    IF ~chromaUp THEN h
    ELSE [h EXCEPT ![collection_name] =
            Append(SelectSeq(@, LAMBDA e : ~(e.content = message_content /\ e.role = role
                                             /\ e.sender = sender)),
                   [id |-> id, content |-> message_content, role |-> role, sender |-> sender])]

\* add_message_to_history(collection_name, message_content, role, sender):
\* one more document under a fresh id; nothing (return False) when ChromaDB
\* cannot be reached or the add raises.
add_message_to_history(h, collection_name, message_content, role, sender, id, chromaUp) ==
    IF ~chromaUp THEN h
    ELSE [h EXCEPT ![collection_name] =
            Append(@, [id |-> id, content |-> message_content, role |-> role, sender |-> sender])]

\* A write that lets the ChromaDB error escape.
add_message_outcome_raising(chromaUp) == IF chromaUp THEN "True" ELSE "raise"

\* What the call gives its caller: True, or False when the collection cannot
\* be obtained (line 67) or the add raises (lines 89-91).
add_message_outcome(chromaUp) == IF chromaUp THEN "True" ELSE "False"

\* get_chat_history(collection_name, n_results): collection.get(limit=n)
\* gives the first n documents; they are sorted by timestamp and reduced to
\* role and content.
get_chat_history(h, collection_name, n_results, chromaUp) ==
    IF ~chromaUp THEN <<>>
    ELSE [i \in 1..(IF Len(h[collection_name]) < n_results THEN Len(h[collection_name]) ELSE n_results) |->
            [role |-> h[collection_name][i].role, content |-> h[collection_name][i].content]]

\* delete_all_chroma_data(): every collection is dropped.
delete_all_chroma_data(h) == [c \in DOMAIN h |-> <<>>]

(***************************************************************************)
(* mrfrench_agent.py: MrFrenchAgent._format_deadline.  A moment is a day   *)
(* number (day 0 is Monday 2025-07-14) and a minute of that day.           *)
(***************************************************************************)
\* datetime.strptime(s, "%Y-%m-%d") and strftime("%Y-%m-%d") on the dates used.
ISODates ==
    "2025-07-10" :> -4 @@ "2025-07-14" :> 0 @@ "2025-07-16" :> 2 @@ "2025-07-21" :> 7 @@
    "2025-07-22" :> 8 @@ "2025-07-28" :> 14 @@ "2025-07-29" :> 15 @@ "2025-08-01" :> 18

\* day_map of _format_deadline, and datetime.weekday().
day_map ==
    "monday" :> 0 @@ "tuesday" :> 1 @@ "wednesday" :> 2 @@ "thursday" :> 3 @@
    "friday" :> 4 @@ "saturday" :> 5 @@ "sunday" :> 6

\* A weekday numbered from Sunday instead of Monday.
weekday_sunday_first(day) == (day + 1) % 7

weekday(day) == day % 7

\* strftime('%A')
DayName == <<"Monday", "Tuesday", "Wednesday", "Thursday", "Friday", "Saturday", "Sunday">>

\* The named phrases of step 2, as <<hour, minute>>.
NamedTimes ==
    "evening" :> <<21, 0>> @@ "tonight" :> <<21, 0>> @@ "morning" :> <<9, 0>> @@
    "afternoon" :> <<14, 0>> @@ "midnight" :> <<0, 0>> @@ "noon" :> <<12, 0>>

\* strptime(s, "%H:%M"), and strptime(s.upper() with ' AM'/' PM', "%I %p").
ParsedTimes ==
    "17:00" :> <<17, 0>> @@ "08:30" :> <<8, 30>> @@ "5 PM" :> <<17, 0>> @@
    "10 PM" :> <<22, 0>> @@ "9am" :> <<9, 0>>

\* strftime("%I:%M %p") alone, the leading zero of the hour kept.
FormatTime_padded(hm) ==
    <<ToString((((hm[1] + 11) % 12) + 1) \div 10), ToString((((hm[1] + 11) % 12) + 1) % 10), ":",
      ToString(hm[2] \div 10), ToString(hm[2] % 10), " ", IF hm[1] < 12 THEN "AM" ELSE "PM">>

\* strftime("%I:%M %p").lstrip('0').replace(' 0', ' ')
FormatTime(hm) ==
    <<ToString(((hm[1] + 11) % 12) + 1), ":", ToString(hm[2] \div 10), ToString(hm[2] % 10),
      " ", IF hm[1] < 12 THEN "AM" ELSE "PM">>

\* The fallback of lines 290 and 329: f"{due_date} {time or ''}".strip()
RawDeadline(due_date, due_time) ==
    IF due_time # T("Unknown") THEN strip(due_date \o <<" ">> \o due_time) ELSE strip(due_date)

_format_deadline(due_date, due_time, now) ==
    LET dl == lower(due_date)
        tl == lower(due_time)
        dateKnown ==
            \/ dl \in {T("today"), T("tomorrow")}
            \/ Len(dl) = 1 /\ dl[1] \in DOMAIN day_map
            \/ Len(due_date) = 1 /\ due_date[1] \in DOMAIN ISODates
        day0 ==
            IF dl = T("today") THEN now.day
            ELSE IF dl = T("tomorrow") THEN now.day + 1
            ELSE IF Len(dl) = 1 /\ dl[1] \in DOMAIN day_map
                 THEN now.day + ((day_map[dl[1]] - weekday(now.day) + 7) % 7)
            ELSE ISODates[due_date[1]]
        named  == Len(tl) = 1 /\ tl[1] \in DOMAIN NamedTimes
        parsed == due_time # T("Unknown") /\ Len(due_time) = 1 /\ due_time[1] \in DOMAIN ParsedTimes
        hasTime == named \/ parsed
        hm == IF named THEN NamedTimes[tl[1]]
              ELSE IF parsed THEN ParsedTimes[due_time[1]] ELSE <<0, 0>>
        day == IF tl = T("midnight") /\ dl = T("today") THEN day0 + 1 ELSE day0
        days_diff == day - now.day
        minute == hm[1] * 60 + hm[2]
        iso == CHOOSE k \in DOMAIN ISODates : ISODates[k] = day
        display_date_part ==
            IF days_diff = 0 THEN T("Today")
            ELSE IF days_diff = 1 THEN T("Tomorrow")
            ELSE IF 0 < days_diff /\ days_diff <= 7
                 THEN IF weekday(day) = weekday(now.day) /\ minute < now.min
                      THEN <<"next ", DayName[weekday(day) + 1]>>
                      ELSE <<"this ", DayName[weekday(day) + 1]>>
            ELSE IF 7 < days_diff /\ days_diff <= 14
                 THEN <<"next ", DayName[weekday(day) + 1]>>
            ELSE T(iso)
        display_time_part ==
            IF due_time = T("Unknown") THEN <<>>
            ELSE IF hasTime THEN FormatTime(hm) ELSE tl
    IN  IF ~dateKnown THEN RawDeadline(due_date, due_time)
        ELSE IF display_time_part # <<>>
             THEN display_date_part \o <<" at ">> \o display_time_part
             ELSE display_date_part

(***************************************************************************)
(* Inputs: who speaks, what the LLM answers, what the environment does.    *)
(***************************************************************************)
PARENT   == T("Parent")
TIMMY    == T("Timmy")
MRFRENCH == T("Mr. French")

UserTypes  == {PARENT, TIMMY}
UserInputs == {T("hello")}

TaskNames == {<<"a", "b">>, <<"a", "b", "c">>, <<"x", "y">>}

\* JSON objects the analysis LLM may answer with.
AddObjects ==
    {[intent |-> T("ADD_TASK"), task |-> n,
      is_completed |-> IF n = <<"x", "y">> THEN T("Progress") ELSE T("Pending"),
      Due_Date |-> T("Today"), Due_Time |-> T("evening"), Reward |-> T("None")] : n \in TaskNames}
    \cup {[intent |-> T("ADD_TASK"), task |-> <<"a", "b">>], [intent |-> T("ADD_TASK")],
          [intent |-> T("ADD_TASK"), task |-> <<"a", "b">>, is_completed |-> T("Pending")],
          [intent |-> T("ADD_TASK"), task |-> <<"x", "y">>, is_completed |-> T("Pending"),
           Due_Date |-> T("Unknown"), Due_Time |-> T("evening")]}

UpdateObjects ==
    {[intent |-> T("UPDATE_TASK"), original_task_name |-> n,
      updates |-> [is_completed |-> T("Completed")]] : n \in {<<"a", "b">>, <<"a", "b", "c">>}}
    \cup {[intent |-> T("UPDATE_TASK"), original_task_name |-> <<"a", "b">>,
            updates |-> [is_completed |-> T("Done")]],
          [intent |-> T("UPDATE_TASK"), original_task_name |-> <<"x", "y">>,
            updates |-> [task |-> <<"a", "b", "c">>]]}

InquiryObjects ==
    {[intent |-> T("TASK_INQUIRY"), query_type |-> q] :
        q \in {T("all"), T("pending"), T("progress"), T("completed"), T("specific"), T("recent")}}
    \cup {[intent |-> T("TASK_INQUIRY"), query_type |-> T("specific"), specific_task |-> <<"B">>]}

OtherObjects ==
    {[intent |-> T("DELETE_TASK"), task |-> <<"a", "b">>],
     [intent |-> T("SET_TIMMY_ZONE_RED"), zone |-> T("Red")],
     [intent |-> T("NO_TASK_IDENTIFIED")],
     [intent |-> T("NO_TASK")],
     [intent |-> T("CHITCHAT")],
     [reply |-> T("hi")]}

AnalysisObjects == AddObjects \cup UpdateObjects \cup InquiryObjects \cup OtherObjects

\* An LLM call raises, answers text that is no JSON, or answers a JSON object.
LLMOutputs ==
    {[kind |-> "raise"], [kind |-> "text"]} \cup {[kind |-> "json", obj |-> o] : o \in AnalysisObjects}

\* The reply of a generation call, or its failure.
LLMReplies == {[kind |-> "raise"], [kind |-> "text", content |-> T("reply")]}

\* datetime.now(timezone.utc) as the deadline formatter sees it.
Nows == {[day |-> 1, min |-> 600]}

Envs == {[dbUp |-> d, chromaUp |-> c, now |-> n] : d \in BOOLEAN, c \in BOOLEAN, n \in Nows}

\* The environment recorded while no request is being handled.
IdleEnv == [dbUp |-> TRUE, chromaUp |-> TRUE, now |-> [day |-> 1, min |-> 600]]

EmptyDict == [k \in {} |-> <<>>]
Put(d, k, v) == [x \in DOMAIN d \cup {k} |-> IF x = k THEN v ELSE d[x]]

NoRequest == [endpoint |-> "none"]
NoState   == [chat_type |-> "none"]
NoLLM     == [kind |-> "none"]
NoReturn  == [status |-> "none"]
\* No request is being served beside the one pc follows.
NoOther   == [pc |-> "idle"]

\* A row left in the table by an earlier add_task.
SeedRow ==
    [id |-> 1, task |-> <<"a", "b">>, is_completed |-> T("Pending"), Due_Date |-> T("Today"),
     Due_Time |-> T("Unknown"), Reward |-> T("None"), updatedAt |-> 1, recurrence |-> NULL]

Init ==
    /\ tasks \in {{}, {SeedRow}}
    /\ nextTaskId = 2
    /\ clock = 2
    /\ history = [c \in Collections |-> <<>>]
    /\ nextMsgId = 1
    /\ pc = "idle"
    /\ req = NoRequest
    /\ state = NoState
    /\ trace = <<>>
    /\ llm_raw = NoLLM
    /\ llm_gen = NoLLM
    /\ llm_in = <<>>
    /\ gen_in = <<>>
    /\ response = NoReturn
    /\ env = IdleEnv
    /\ nreq = 0
    /\ tasks0 = tasks
    /\ history0 = history
    /\ _timmy_zone = T("Green")
    /\ timmy = NULL
    /\ other = NoOther

\* Several add_message_to_history calls in a row: msgs is a sequence of
\* <<collection, content, role, sender>>.
RECURSIVE AddAll(_, _, _, _)
AddAll(h, msgs, id, chromaUp) ==
    IF msgs = <<>> THEN h
    ELSE AddAll(add_message_to_history(h, msgs[1][1], msgs[1][2], msgs[1][3], msgs[1][4], id, chromaUp),
                Tail(msgs), id + 1, chromaUp)

Written(msgs, chromaUp) == IF chromaUp THEN Len(msgs) ELSE 0

(***************************************************************************)
(* conversation_flow.py: the graph.                                        *)
(***************************************************************************)
\* A graph with an edge from mrfrench_response back to parent_turn.
workflow_revisiting(node, st) ==
    CASE node = "start_node"        -> "parent_turn"
      [] node = "parent_turn"       -> "mrfrench_analysis"
      [] node = "mrfrench_analysis" ->
            IF st.chat_type = "parent-timmy" THEN "END" ELSE "mrfrench_response"
      [] node = "mrfrench_response" -> "parent_turn"
      [] OTHER                      -> "END"

\* A graph whose conditional edge ends the run on the child-mediator channel.
workflow_ends_early(node, st) ==
    CASE node = "start_node"        -> "parent_turn"
      [] node = "parent_turn"       -> "mrfrench_analysis"
      [] node = "mrfrench_analysis" ->
            IF st.chat_type = "parent-mrfrench" THEN "mrfrench_response" ELSE "END"
      [] OTHER                      -> "END"

\* The edges of `workflow`; no edge leads to child_turn.
workflow(node, st) ==
    CASE node = "start_node"        -> "parent_turn"
      [] node = "parent_turn"       -> "mrfrench_analysis"
      [] node = "mrfrench_analysis" ->
            IF st.chat_type = "parent-timmy" THEN "END" ELSE "mrfrench_response"
      [] node = "mrfrench_response" -> "END"
      [] OTHER                      -> "END"

\* POST /chat/{chat_type}: validation passed, the graph is started.
\* _format_messages_for_llm: one LangChain message per user, assistant or
\* system message; any other role is dropped.
_format_messages_for_llm(messages) ==
    SelectSeq(messages, LAMBDA m : m.role \in {T("user"), T("assistant"), T("system")})

\* _get_full_context_for_llm: a history document is kept when it has a
\* metadata.speaker and a document (or page_content) field.
_get_full_context_for_llm(h, chat_type, current_messages, chromaUp) ==
    LET history_docs == get_chat_history(h, chat_type, 10, chromaUp)
        speaker(d) == IF Has(d, "metadata") THEN Get(d["metadata"], "speaker", NONE) ELSE NONE
        content(d) == Get(d, "document", Get(d, "page_content", <<>>))
        kept == SelectSeq(history_docs, LAMBDA d : Truthy(speaker(d)) /\ Truthy(content(d)))
        full_context == [i \in 1..Len(kept) |->
                            [role |-> IF speaker(kept[i]) \in {PARENT, TIMMY} THEN T("user") ELSE T("assistant"),
                             content |-> content(kept[i])]]
    IN  _format_messages_for_llm(full_context \o current_messages)

\* The task lines of one status group of the analysis prompt (lines 84-97).
RECURSIVE task_lines(_)
task_lines(rows) ==
    IF rows = <<>> THEN <<>>
    ELSE <<"- Task: ">> \o Str(rows[1].task) \o <<", Status: ">> \o rows[1].is_completed
            \o <<", Due: ">> \o Str(rows[1].Due_Date) \o <<" ">> \o Str(rows[1].Due_Time)
            \o task_lines(Tail(rows))

\* tasks_context of mrfrench_analysis_node (lines 77-99).
tasks_context(all_tasks) ==
    LET group(status) == SelectSeq(all_tasks, LAMBDA t : t.is_completed = status)
        part(title, rows) ==
            IF rows = <<>> THEN <<>> ELSE <<title, ToString(Len(rows))>> \o task_lines(rows)
    IN  IF all_tasks = <<>> THEN T("No tasks found in the database.")
        ELSE T("Current Tasks in Database:")
                \o part("Pending Tasks", group(T("Pending")))
                \o part("In Progress Tasks", group(T("Progress")))
                \o part("Completed Tasks", group(T("Completed")))

\* The list given to llm.invoke at line 154: the analysis prompt and the
\* user input.
analysis_messages(st, tbl, dbUp) ==
    <<[role |-> T("system"), content |-> <<"analysis_prompt">> \o tasks_context(get_tasks(tbl, NONE, dbUp))],
      [role |-> T("user"), content |-> st.user_input]>>

\* A node that raises ends langgraph_app.stream with the exception; every
\* add_message_to_history call of a node is outside the node's try blocks.
next_node(node, st, calls, chromaUp) ==
    IF calls > 0 /\ add_message_outcome(chromaUp) = "raise" THEN "failed" ELSE workflow(node, st)

ChatRequest ==
    /\ pc = "idle"
    /\ nreq < MaxRequests
    /\ \E ct \in ChatTypes, ut \in UserTypes, ui \in UserInputs, e \in Envs :
        /\ req' = [endpoint |-> "chat", chat_type |-> ct, user_type |-> ut, user_input |-> ui]
        /\ state' = [chat_type |-> ct, messages |-> <<>>, user_input |-> ui,
                     mr_french_analysis |-> EmptyDict,
                     mr_french_task_action_response |-> <<>>,
                     current_speaker |-> ut, recipient |-> T("None")]
        /\ env' = e
    /\ pc' = "start_node"
    /\ trace' = <<>>
    /\ llm_raw' = NoLLM
    /\ llm_gen' = NoLLM
    /\ llm_in' = <<>>
    /\ gen_in' = <<>>
    /\ response' = NoReturn
    /\ nreq' = nreq + 1
    /\ tasks0' = tasks
    /\ history0' = history
    /\ UNCHANGED zoneVars
    /\ UNCHANGED storeVars
    /\ UNCHANGED other

\* start_node written against a module-level "current request" instead of
\* the state it is handed.
start_node_shared(st) ==
    [st EXCEPT !.messages = @ \o <<[role |-> T("user"),
                                    content |-> IF req.endpoint = "chat" THEN req.user_input
                                                ELSE st.user_input]>>]

start_node(st) ==
    [st EXCEPT !.messages = @ \o <<[role |-> T("user"), content |-> st.user_input]>>]

StartNode ==
    /\ pc = "start_node"
    /\ state' = start_node(state)
    /\ trace' = Append(trace, "start_node")
    /\ pc' = workflow("start_node", state')
    /\ UNCHANGED zoneVars
    /\ UNCHANGED <<storeVars, req, llm_raw, llm_in, gen_in, llm_gen, response, env, nreq, tasks0, history0>>
    /\ UNCHANGED other

\* parent_turn_node: speaker is the literal "Parent"; the arguments reach
\* add_message_to_history(collection_name, message_content, role, sender)
\* in the order (chat_type, speaker, speaker, user_input).
parent_turn_msgs(st) == <<<<st.chat_type, PARENT, PARENT, st.user_input>>>>

ParentTurnNode ==
    /\ pc = "parent_turn"
    /\ history' = AddAll(history, parent_turn_msgs(state), nextMsgId, env.chromaUp)
    /\ nextMsgId' = nextMsgId + Written(parent_turn_msgs(state), env.chromaUp)
    /\ state' = [state EXCEPT !.current_speaker = PARENT]
    /\ trace' = Append(trace, "parent_turn")
    /\ pc' = next_node("parent_turn", state', Len(parent_turn_msgs(state)), env.chromaUp)
    /\ UNCHANGED zoneVars
    /\ UNCHANGED <<tasks, nextTaskId, clock, req, llm_raw, llm_in, gen_in, llm_gen, response, env, nreq, tasks0, history0>>
    /\ UNCHANGED other

(***************************************************************************)
(* mrfrench_analysis_node: the LLM call, json.loads, the dispatch on the   *)
(* intent and the two except branches.                                     *)
(***************************************************************************)
\* Line 173.
AddedFlowMsg(task_data) ==
    <<"Okay, I've added the task: '">> \o Str(task_data["task"]) \o <<"' for Timmy. Due: ">>
        \o Str(task_data["Due_Date"]) \o <<" at ">> \o Str(task_data["Due_Time"]) \o <<".">>

\* Lines 176-179.
timmy_notification_msg(task_data) ==
    <<"Hi Timmy! Your parent just assigned you a new task: ", "'">> \o Str(task_data["task"])
        \o <<"'. It's due ">> \o Str(task_data["Due_Date"]) \o <<" at ">>
        \o Str(task_data["Due_Time"]) \o <<".">>

REPHRASE_MSG == T("I'm having a bit of trouble understanding that. Could you rephrase?")
ANALYSIS_ERROR_MSG == T("I encountered an error during analysis.")

\* A handler that records the failure but leaves the action text empty.
JSONDecodeBranch_mute(st) ==
    [st EXCEPT !.mr_french_analysis =
                  Put(@, "mr_french_analysis",
                      [intent |-> T("NO_TASK_IDENTIFIED"), error |-> T("JSON Decode Error")])]

\* except json.JSONDecodeError (lines 239-241).
JSONDecodeBranch(st) ==
    [st EXCEPT !.mr_french_analysis =
                  Put(@, "mr_french_analysis",
                      [intent |-> T("NO_TASK_IDENTIFIED"), error |-> T("JSON Decode Error")]),
               !.mr_french_task_action_response = REPHRASE_MSG]

\* except Exception (lines 242-244).
ExceptionBranch(st) ==
    [st EXCEPT !.mr_french_analysis =
                  Put(@, "mr_french_analysis",
                      [intent |-> T("NO_TASK_IDENTIFIED"), error |-> T("exception")]),
               !.mr_french_task_action_response = ANALYSIS_ERROR_MSG]

\* Lines 236-237.
AnalysisDone(st, task_action_response) ==
    [st EXCEPT !.mr_french_task_action_response = task_action_response,
               !.current_speaker = MRFRENCH]

\* `if updated_db_response:` a dict with a row's columns or with the key
\* 'error' is not empty.
DictTruthy(r) == r.kind \in {"row", "error"}

\* A selection whose substring test is case-sensitive.
InquiryTasks_cased(all_tasks, query_type, specific_task) ==
    IF query_type = T("pending") THEN SelectSeq(all_tasks, LAMBDA t : t.is_completed = T("Pending"))
    ELSE IF query_type = T("progress") THEN SelectSeq(all_tasks, LAMBDA t : t.is_completed = T("Progress"))
    ELSE IF query_type = T("completed") THEN SelectSeq(all_tasks, LAMBDA t : t.is_completed = T("Completed"))
    ELSE IF query_type = T("specific") /\ specific_task # <<>>
         THEN SelectSeq(all_tasks, LAMBDA t : Contains(t.task, specific_task))
    ELSE all_tasks

\* Lines 203-227.
InquiryTasks(all_tasks, query_type, specific_task) ==
    IF query_type = T("pending") THEN SelectSeq(all_tasks, LAMBDA t : t.is_completed = T("Pending"))
    ELSE IF query_type = T("progress") THEN SelectSeq(all_tasks, LAMBDA t : t.is_completed = T("Progress"))
    ELSE IF query_type = T("completed") THEN SelectSeq(all_tasks, LAMBDA t : t.is_completed = T("Completed"))
    ELSE IF query_type = T("specific") /\ specific_task # <<>>
         THEN SelectSeq(all_tasks, LAMBDA t : Contains(lower(t.task), lower(specific_task)))
    ELSE all_tasks

InquiryMsg(n, query_type, specific_task) ==
    IF query_type = T("pending") THEN <<"Found ", ToString(n), " pending tasks.">>
    ELSE IF query_type = T("progress") THEN <<"Found ", ToString(n), " tasks in progress.">>
    ELSE IF query_type = T("completed") THEN <<"Found ", ToString(n), " completed tasks.">>
    ELSE IF query_type = T("specific") /\ specific_task # <<>>
         THEN <<"Found ", ToString(n), " tasks matching '">> \o specific_task \o <<"'.">>
    ELSE <<"Found ", ToString(n), " total tasks.">>

\* An inquiry that removes from the table the tasks it reports.
task_inquiry_consuming(st1, a, tbl, dbUp) ==
    LET relevant == InquiryTasks(get_tasks(tbl, NONE, dbUp), Get(a, "query_type", T("all")),
                                 Get(a, "specific_task", <<>>))
    IN  [st   |-> AnalysisDone([st1 EXCEPT !.mr_french_analysis = Put(@, "task_inquiry_data", relevant)],
                               InquiryMsg(Len(relevant), Get(a, "query_type", T("all")),
                                          Get(a, "specific_task", <<>>))),
         tbl  |-> tbl \ Range(relevant),
         msgs |-> <<>>]

\* The TASK_INQUIRY branch (lines 203-227): st1 is the state holding the
\* analysis a.
task_inquiry(st1, a, tbl, dbUp) ==
    LET query_type    == Get(a, "query_type", T("all"))
        specific_task == Get(a, "specific_task", <<>>)
        relevant == InquiryTasks(get_tasks(tbl, NONE, dbUp), query_type, specific_task)
        st2 == [st1 EXCEPT !.mr_french_analysis = Put(@, "task_inquiry_data", relevant)]
    IN  [st |-> AnalysisDone(st2, InquiryMsg(Len(relevant), query_type, specific_task)),
         tbl |-> tbl, msgs |-> <<>>]

\* The node on LLM outcome `out`: the state it returns, the table afterwards
\* and the add_message_to_history calls it makes.
mrfrench_analysis_node(st, out, tbl, id, now, dbUp) ==
    IF out.kind = "raise" THEN [st |-> ExceptionBranch(st), tbl |-> tbl, msgs |-> <<>>]
    ELSE IF out.kind = "text" THEN [st |-> JSONDecodeBranch(st), tbl |-> tbl, msgs |-> <<>>]
    ELSE
    LET a      == out.obj
        st1    == [st EXCEPT !.mr_french_analysis = Put(@, "mr_french_analysis", a)]
        intent == Get(a, "intent", NONE)
    IN  IF intent = T("ADD_TASK") THEN
            LET task_data == [task         |-> Get(a, "task", NONE),
                              is_completed |-> Get(a, "is_completed", T("Pending")),
                              Due_Date     |-> Get(a, "Due_Date", T("None")),
                              Due_Time     |-> Get(a, "Due_Time", T("None")),
                              Reward       |-> Get(a, "Reward", T("None"))]
                r == add_task(tbl, task_data, id, now, dbUp)
            IN  IF r.kind = "raise"
                THEN [st |-> ExceptionBranch(st1), tbl |-> tbl, msgs |-> <<>>]
                ELSE [st   |-> AnalysisDone(st1, AddedFlowMsg(task_data)),
                      tbl  |-> r.tbl,
                      msgs |-> IF st.chat_type = "parent-mrfrench"
                               THEN <<<<"timmy-mrfrench", MRFRENCH, MRFRENCH,
                                        timmy_notification_msg(task_data)>>>>
                               ELSE <<>>]
        ELSE IF intent = T("UPDATE_TASK") THEN
            LET original_task_name == Get(a, "original_task_name", NONE)
                updates == Get(a, "updates", EmptyDict)
                r == update_task(tbl, 0, original_task_name, updates, now, dbUp)
                shown == Get(updates, "is_completed",
                             IF r.kind = "row" THEN r.row.is_completed ELSE NONE)
            IN  IF Truthy(original_task_name) /\ DOMAIN updates # {}
                THEN IF DictTruthy(r)
                     THEN [st |-> AnalysisDone(st1, <<"I've updated '">> \o original_task_name
                                     \o <<"'. Its status is now: '">> \o Str(shown) \o <<"'.">>),
                           tbl |-> r.tbl, msgs |-> <<>>]
                     ELSE [st |-> AnalysisDone(st1, <<"I tried to update '">> \o original_task_name
                                     \o <<"' but couldn't find it or apply updates.">>),
                           tbl |-> r.tbl, msgs |-> <<>>]
                ELSE [st |-> AnalysisDone(st1,
                                T("I couldn't identify which task to update or what updates to apply.")),
                      tbl |-> tbl, msgs |-> <<>>]
        ELSE IF intent = T("DELETE_TASK") THEN
            LET task_name == Get(a, "task", NONE)
            IN  [st |-> AnalysisDone(st1,
                            IF Truthy(task_name)
                            THEN <<"I've removed the task: '">> \o task_name \o <<"'.">>
                            ELSE T("I couldn't identify which task to delete.")),
                 tbl |-> tbl, msgs |-> <<>>]
        ELSE IF intent = T("TASK_INQUIRY") THEN task_inquiry(st1, a, tbl, dbUp)
        ELSE IF intent \in {T("SET_TIMMY_ZONE_RED"), T("SET_TIMMY_ZONE_BLUE")} THEN
            [st |-> AnalysisDone(st1, <<"Request to set Timmy's zone to ">> \o Str(Get(a, "zone", NONE))
                            \o <<" detected. This will be handled by the dedicated zone endpoint.">>),
             tbl |-> tbl, msgs |-> <<>>]
        ELSE [st |-> AnalysisDone(st1, <<>>), tbl |-> tbl, msgs |-> <<>>]

MrFrenchAnalysisNode ==
    /\ pc = "mrfrench_analysis"
    /\ \E out \in LLMOutputs :
      \E r \in {mrfrench_analysis_node(state, out, tasks, nextTaskId, clock, env.dbUp)} :
            /\ llm_raw' = out
            /\ state' = r.st
            /\ tasks' = r.tbl
            /\ nextTaskId' = IF Cardinality(r.tbl) > Cardinality(tasks) THEN nextTaskId + 1 ELSE nextTaskId
            /\ clock' = IF r.tbl # tasks THEN clock + 1 ELSE clock
            /\ history' = AddAll(history, r.msgs, nextMsgId, env.chromaUp)
            /\ nextMsgId' = nextMsgId + Written(r.msgs, env.chromaUp)
            /\ pc' = next_node("mrfrench_analysis", r.st, Len(r.msgs), env.chromaUp)
    /\ trace' = Append(trace, "mrfrench_analysis")
    /\ llm_in' = analysis_messages(state, tasks, env.dbUp)
    /\ UNCHANGED gen_in
    /\ UNCHANGED zoneVars
    /\ UNCHANGED <<llm_gen, req, response, env, nreq, tasks0, history0>>
    /\ UNCHANGED other

(***************************************************************************)
(* mrfrench_response_node and child_turn_node.                             *)
(***************************************************************************)
RESPONSE_APOLOGY == T("I'm sorry, I'm having trouble responding right now.")
TIMMY_APOLOGY    == T("Uh oh, I'm not sure how to respond right now.")

\* Lines 311-327.
Recipient(chat_type) ==
    IF chat_type = "parent-mrfrench" THEN PARENT
    ELSE IF chat_type = "timmy-mrfrench" THEN TIMMY
    ELSE T("None")

\* Both branches of the try (lines 391-407) do the same with their content.
\* The listing built at lines 341-356: one entry per task of task_inquiry_data.
RECURSIVE task_details(_)
task_details(data) ==
    IF data = <<>> THEN <<>>
    ELSE LET task == data[1]
             due == IF task.Due_Date \notin {T("No due date"), T("None")}
                    THEN <<", Due: ">> \o task.Due_Date
                            \o (IF task.Due_Time \notin {T("No due time"), T("None"), T("Unknown")}
                                THEN <<" at ">> \o task.Due_Time ELSE <<>>)
                    ELSE <<>>
             reward == IF task.Reward \notin {T("No reward"), T("None")}
                       THEN <<", Reward: ">> \o task.Reward ELSE <<>>
         IN  <<"\n- ">> \o task.task \o <<" (Status: ">> \o task.is_completed \o due \o reward
                \o <<")">> \o task_details(Tail(data))

\* instruction_message of mrfrench_response_node with every inquiry answered
\* by the listing, whether or not any task matched.
instruction_message_listing_always(st) ==
    <<"The parent asked about tasks. Here are the relevant tasks: ">>
        \o task_details(Get(st.mr_french_analysis, "task_inquiry_data", <<>>))
        \o <<"\n\nRespond naturally and helpfully.">>

\* instruction_message of mrfrench_response_node (lines 333-386).
instruction_message(st) ==
    LET mr_french_analysis == st.mr_french_analysis["mr_french_analysis"]
        intent == Get(mr_french_analysis, "intent", NONE)
        query_type == Get(mr_french_analysis, "query_type", T("all"))
        specific_task == Get(mr_french_analysis, "specific_task", <<>>)
        task_inquiry_data == Get(st.mr_french_analysis, "task_inquiry_data", <<>>)
        n == ToString(Len(task_inquiry_data))
        listing == task_details(task_inquiry_data)
    IN  IF intent = T("TASK_INQUIRY")
        THEN IF task_inquiry_data # <<>>
             THEN IF query_type = T("all")
                  THEN <<"The parent asked about all of Timmy's tasks. Provide a helpful summary. Here are the current tasks: ">>
                          \o listing \o <<"\n\nRespond naturally and conversationally, organizing this information in a parent-friendly way.">>
                  ELSE IF query_type = T("pending")
                  THEN <<"The parent asked about Timmy's pending tasks. Here are the ", n, " pending tasks: ">>
                          \o listing \o <<"\n\nRespond naturally, focusing on what still needs to be done.">>
                  ELSE IF query_type = T("progress")
                  THEN <<"The parent asked about Timmy's tasks in progress. Here are the ", n, " tasks currently in progress: ">>
                          \o listing \o <<"\n\nRespond naturally, focusing on ongoing work.">>
                  ELSE IF query_type = T("completed")
                  THEN <<"The parent asked about Timmy's completed tasks. Here are the ", n, " completed tasks: ">>
                          \o listing \o <<"\n\nRespond naturally, focusing on accomplishments.">>
                  ELSE IF query_type = T("specific") /\ specific_task # <<>>
                  THEN <<"The parent asked about tasks related to '">> \o specific_task
                          \o <<"'. Here are the ", n, " matching tasks: ">>
                          \o listing \o <<"\n\nRespond naturally about these specific tasks.">>
                  ELSE <<"The parent asked about tasks. Here are the relevant tasks: ">>
                          \o listing \o <<"\n\nRespond naturally and helpfully.">>
             ELSE IF query_type = T("pending")
                  THEN T("The parent asked about pending tasks, but there are no pending tasks currently. Respond positively about this.")
                  ELSE IF query_type = T("progress")
                  THEN T("The parent asked about tasks in progress, but there are no tasks currently in progress. Respond appropriately.")
                  ELSE IF query_type = T("completed")
                  THEN T("The parent asked about completed tasks, but there are no completed tasks yet. Respond encouragingly.")
                  ELSE IF query_type = T("specific") /\ specific_task # <<>>
                  THEN <<"The parent asked about tasks related to '">> \o specific_task
                          \o <<"', but no matching tasks were found. Respond helpfully.">>
                  ELSE T("The parent asked about tasks, but there are currently no tasks in the system. Respond helpfully.")
        ELSE IF intent \in {T("ADD_TASK"), T("UPDATE_TASK"), T("DELETE_TASK")}
        THEN <<"You just analyzed the message and detected a task action. Your internal action response was: '">>
                \o st.mr_french_task_action_response
                \o <<"'. Formulate a natural, conversational response based on this action and the user's original message: '">>
                \o st.user_input \o <<"'.">>
        ELSE IF intent \in {T("SET_TIMMY_ZONE_RED"), T("SET_TIMMY_ZONE_BLUE")}
        THEN <<"You just analyzed a request to set Timmy's zone. Your internal action response was: '">>
                \o st.mr_french_task_action_response \o <<"'. Formulate a response regarding Timmy's zone.">>
        ELSE <<"The user's message '">> \o st.user_input \o <<"' was general. Respond conversationally.">>

\* messages_for_llm of mrfrench_response_node: the system prompt of the
\* channel, the history context with the user input, and the instruction.
response_messages(st, h, chromaUp) ==
    <<[role |-> T("system"), content |-> <<"system_prompt_content", st.chat_type>>]>>
        \o _get_full_context_for_llm(h, st.chat_type, <<[role |-> T("user"), content |-> st.user_input]>>, chromaUp)
        \o <<[role |-> T("user"), content |-> instruction_message(st)]>>

mrfrench_response_node(st, gen) ==
    LET mrfrench_content == IF gen.kind = "text" THEN gen.content ELSE RESPONSE_APOLOGY
    IN  [st   |-> [st EXCEPT !.messages = Append(@, [role |-> T("assistant"), content |-> mrfrench_content]),
                             !.current_speaker = MRFRENCH,
                             !.recipient = Recipient(st.chat_type)],
         msgs |-> <<<<st.chat_type, MRFRENCH, MRFRENCH, mrfrench_content>>>>]

MrFrenchResponseNode ==
    /\ pc = "mrfrench_response"
    /\ \E gen \in LLMReplies :
      \E r \in {mrfrench_response_node(state, gen)} :
            /\ llm_gen' = gen
            /\ state' = r.st
            /\ history' = AddAll(history, r.msgs, nextMsgId, env.chromaUp)
            /\ nextMsgId' = nextMsgId + Written(r.msgs, env.chromaUp)
    /\ trace' = Append(trace, "mrfrench_response")
    /\ pc' = next_node("mrfrench_response", state', 1, env.chromaUp)
    /\ UNCHANGED zoneVars
    /\ gen_in' = response_messages(state, history, env.chromaUp)
    /\ UNCHANGED <<tasks, nextTaskId, clock, req, llm_raw, llm_in, response, env, nreq, tasks0, history0>>
    /\ UNCHANGED other

\* Lines 281-298; the node is added to the graph but no edge reaches it.
child_turn_node(st, gen) ==
    LET timmy_content == IF gen.kind = "text" THEN gen.content ELSE TIMMY_APOLOGY
    IN  [st   |-> [st EXCEPT !.messages = Append(@, [role |-> T("assistant"), content |-> timmy_content]),
                             !.current_speaker = TIMMY],
         msgs |-> <<<<st.chat_type, TIMMY, TIMMY, timmy_content>>>>]

ChildTurnNode ==
    /\ pc = "child_turn"
    /\ \E gen \in LLMReplies :
      \E r \in {child_turn_node(state, gen)} :
            /\ llm_gen' = gen
            /\ state' = r.st
            /\ history' = AddAll(history, r.msgs, nextMsgId, env.chromaUp)
            /\ nextMsgId' = nextMsgId + Written(r.msgs, env.chromaUp)
    /\ trace' = Append(trace, "child_turn")
    /\ pc' = next_node("child_turn", state', 1, env.chromaUp)
    /\ UNCHANGED zoneVars
    /\ UNCHANGED <<tasks, nextTaskId, clock, req, llm_raw, llm_in, gen_in, response, env, nreq, tasks0, history0>>
    /\ UNCHANGED other

(***************************************************************************)
(* main.py: chat_endpoint after the graph has ended (lines 93-163).        *)
(***************************************************************************)
NO_RESPONSE == T("No direct AI response generated for this chat type.")

determine_roles(chat_type, user_type) ==
    IF chat_type = "timmy-mrfrench" THEN <<TIMMY, MRFRENCH>>
    ELSE IF chat_type = "parent-mrfrench" THEN <<PARENT, MRFRENCH>>
    ELSE IF chat_type = "parent-timmy" THEN <<PARENT, TIMMY>>
    ELSE <<user_type, MRFRENCH>>

\* The content of the last assistant message, or the default.
LastAssistant(messages, default) ==
    LET idx == {i \in 1..Len(messages) : messages[i].role = T("assistant")}
    IN  IF idx = {} THEN default
        ELSE messages[CHOOSE i \in idx : \A j \in idx : j <= i].content

\* final_state is the last chunk streamed: {name of the last node: its state}.
response_message(chat_type, last, st) ==
    IF chat_type = "parent-timmy"
    THEN IF last = "child_turn" THEN LastAssistant(st.messages, NO_RESPONSE) ELSE NO_RESPONSE
    ELSE IF last \in {"mrfrench_response", "child_turn"}
         THEN LastAssistant(st.messages, NO_RESPONSE)
         ELSE NO_RESPONSE

\* Lines 110-111 and 151-153.
chat_endpoint_msgs(chat_type, user_type, user_input, reply) ==
    IF chat_type = "parent-timmy"
    THEN <<<<chat_type, user_input, T("user"), PARENT>>,
           <<chat_type, reply, T("assistant"), TIMMY>>>>
    ELSE LET roles == determine_roles(chat_type, user_type)
         IN  <<<<chat_type, user_input, roles[1], user_type>>,
               <<chat_type, reply, roles[2], roles[2]>>>>

ChatEndpointFinish ==
    /\ pc \in {"END", "failed"}
    /\ req.endpoint = "chat"
    /\ LET reply == response_message(req.chat_type, trace[Len(trace)], state)
           msgs  == chat_endpoint_msgs(req.chat_type, req.user_type, req.user_input, reply)
       IN  IF pc = "failed"
           THEN /\ response' = [status |-> "exception"]
                /\ UNCHANGED <<history, nextMsgId>>
           ELSE /\ history' = AddAll(history, msgs, nextMsgId, env.chromaUp)
                /\ nextMsgId' = nextMsgId + Written(msgs, env.chromaUp)
                /\ response' = IF req.chat_type = "parent-timmy"
                               THEN [status |-> "ok", sender |-> TIMMY, message |-> reply]
                               ELSE [status |-> "ok", user_type |-> req.user_type,
                                     user_input |-> req.user_input, ai_response |-> reply]
    /\ pc' = "done"
    /\ UNCHANGED zoneVars
    /\ UNCHANGED <<tasks, nextTaskId, clock, req, state, trace, llm_raw, llm_in, gen_in, llm_gen, env, nreq, tasks0, history0>>
    /\ UNCHANGED other

\* The handler has returned; nothing of the request is kept.
Return ==
    /\ pc = "done"
    /\ pc' = "idle"
    /\ req' = NoRequest
    /\ state' = NoState
    /\ trace' = <<>>
    /\ llm_raw' = NoLLM
    /\ llm_gen' = NoLLM
    /\ llm_in' = <<>>
    /\ gen_in' = <<>>
    /\ response' = NoReturn
    /\ env' = IdleEnv
    /\ tasks0' = tasks
    /\ history0' = history
    /\ UNCHANGED zoneVars
    /\ UNCHANGED <<storeVars, nreq>>
    /\ UNCHANGED other

\* DELETE /reset-conversation: delete_all_chroma_data() and delete_all_tasks().
ResetConversation ==
    /\ pc = "idle"
    /\ (tasks # {} \/ history # delete_all_chroma_data(history))
    /\ history' = delete_all_chroma_data(history)
    /\ tasks' = delete_all_tasks(tasks)
    /\ tasks0' = tasks'
    /\ history0' = history'
    /\ UNCHANGED zoneVars
    /\ UNCHANGED <<nextTaskId, clock, nextMsgId, pc, req, state, trace, llm_raw, llm_in, gen_in, llm_gen, response, env, nreq>>
    /\ UNCHANGED other

(***************************************************************************)
(* main.py: POST /parent-timmy/message (lines 170-225).                    *)
(***************************************************************************)
allowed_keys == {"task", "is_completed", "Due_Date", "Due_Time", "Reward"}

\* An endpoint that takes an answer that is no JSON for a request to add.
ObserverAnalysis_guessing(out) ==
    IF out.kind = "json" THEN out.obj
    ELSE [intent |-> T("ADD_TASK"), task |-> <<"x", "y">>]

\* json.loads of the observer's answer; get_llm_response turns a failed call
\* into an apology, which is no JSON either.
ObserverAnalysis(out) ==
    IF out.kind = "json" THEN out.obj ELSE [intent |-> T("NO_TASK")]

\* The dispatch on the intent: whether an exception leaves the handler, and
\* the table afterwards.
parent_timmy_action(analysis, tbl, id, now, dbUp) ==
    LET mrfrench_action == Get(analysis, "intent", T("NO_TASK"))
    IN  IF mrfrench_action = T("ADD_TASK") THEN
            LET task_data == [k \in DOMAIN analysis \cap allowed_keys |-> analysis[k]]
                r == add_task(tbl, task_data, id, now, dbUp)
            IN  [raised |-> r.kind = "raise", tbl |-> r.tbl]
        ELSE IF mrfrench_action = T("UPDATE_TASK") THEN
            LET original_task_name == Get(analysis, "original_task_name", NONE)
                updates == Get(analysis, "updates", EmptyDict)
                matched_task == find_similar_task(tbl, original_task_name, dbUp)
            IN  IF original_task_name = NONE THEN [raised |-> TRUE, tbl |-> tbl]
                ELSE IF matched_task = <<>> THEN [raised |-> FALSE, tbl |-> tbl]
                ELSE [raised |-> FALSE,
                      tbl |-> update_task(tbl, matched_task[1].id, NONE, updates, now, dbUp).tbl]
        ELSE IF mrfrench_action = T("DELETE_TASK") THEN
            LET original_task_name ==
                    IF Truthy(Get(analysis, "original_task_name", NONE))
                    THEN analysis["original_task_name"] ELSE Get(analysis, "task", NONE)
                matched_task == find_similar_task(tbl, original_task_name, dbUp)
            IN  IF original_task_name = NONE THEN [raised |-> TRUE, tbl |-> tbl]
                ELSE IF matched_task = <<>> THEN [raised |-> FALSE, tbl |-> tbl]
                ELSE [raised |-> FALSE,
                      tbl |-> delete_task(tbl, matched_task[1].id, NONE, dbUp).tbl]
        ELSE [raised |-> FALSE, tbl |-> tbl]

ParentTimmyMessage ==
    /\ pc = "idle"
    /\ nreq < MaxRequests
    /\ \E sender \in UserTypes, message \in UserInputs, e \in Envs, out \in LLMOutputs :
       \E r \in {parent_timmy_action(ObserverAnalysis(out), tasks, nextTaskId, clock, e.dbUp)} :
        /\ req' = [endpoint |-> "parent_timmy_message", chat_type |-> "parent-timmy",
                   user_type |-> sender, user_input |-> message]
        /\ env' = e
        /\ llm_raw' = out
        /\ llm_gen' = NoLLM
        /\ llm_in' = <<>>
        /\ gen_in' = <<>>
        /\ history' = AddAll(history, <<<<"parent-timmy", message, T("user"), sender>>>>,
                             nextMsgId, e.chromaUp)
        /\ nextMsgId' = nextMsgId + Written(<<1>>, e.chromaUp)
        /\ tasks' = r.tbl
        /\ nextTaskId' = IF Cardinality(r.tbl) > Cardinality(tasks) THEN nextTaskId + 1 ELSE nextTaskId
        /\ clock' = IF r.tbl # tasks THEN clock + 1 ELSE clock
        /\ response' = IF r.raised THEN [status |-> "exception"]
                       ELSE [status |-> "ok", message_saved |-> TRUE,
                             mrfrench_action |-> Get(ObserverAnalysis(out), "intent", T("NO_TASK")),
                             mrfrench_analysis |-> ObserverAnalysis(out)]
    /\ pc' = "done"
    /\ state' = NoState
    /\ trace' = <<>>
    /\ nreq' = nreq + 1
    /\ tasks0' = tasks
    /\ history0' = history
    /\ UNCHANGED zoneVars
    /\ UNCHANGED other

(***************************************************************************)
(* mrfrench_agent.py: MrFrenchAgent.analyze_message_for_tasks,             *)
(* handle_task_action and notify_timmy_new_task.                           *)
(***************************************************************************)
VALID_INTENTS == {T("ADD_TASK"), T("UPDATE_TASK"), T("DELETE_TASK"), T("NO_TASK")}

\* The renaming of the key 'Rewards' to 'Reward'.
Harmonize(d) ==
    IF Has(d, "Rewards")
    THEN [k \in (DOMAIN d \ {"Rewards"}) \cup {"Reward"} |-> IF k = "Reward" THEN d["Rewards"] ELSE d[k]]
    ELSE d

analyze_message_for_tasks(out) ==
    IF out.kind # "json" THEN [intent |-> T("NO_TASK")]
    ELSE IF ~Has(out.obj, "intent") \/ out.obj["intent"] \notin VALID_INTENTS
    THEN [intent |-> T("NO_TASK")]
    ELSE LET h == Harmonize(out.obj)
         IN  IF Has(h, "updates") THEN [h EXCEPT !["updates"] = Harmonize(@)] ELSE h

\* Line 50-60: the log entry of the analysis.
analysis_log_msgs(message_content) ==
    <<<<"mrfrench-logs", <<"Analyzed message: ">> \o message_content \o <<"... Result: ">>,
        T("system"), T("Mr. French Analyzer")>>>>

RewardPart(reward, before, after) ==
    IF reward # T("None") THEN before \o Str(reward) \o after ELSE <<>>

\* Lines 184-186.
message_for_timmy(task_data, now) ==
    <<"Hi Timmy! Your parent just assigned you a new task: ", "'">> \o task_data["task"]
        \o <<"'. ", "It's due ">> \o _format_deadline(task_data["Due_Date"], task_data["Due_Time"], now)
        \o <<".">>
        \o (IF Truthy(task_data["Reward"])
            THEN RewardPart(task_data["Reward"], <<" You'll get ">>, <<" for completing it!">>)
            ELSE <<>>)

notify_timmy_new_task(task_data, now) ==
    <<<<"timmy-mrfrench", message_for_timmy(task_data, now), T("assistant"), MRFRENCH>>>>

\* Line 121-123.
AddedAgentMsg(task_data, now) ==
    <<"Okay, I've added the task: '">> \o task_data["task"] \o <<"' for Timmy. Due: ">>
        \o _format_deadline(task_data["Due_Date"], task_data["Due_Time"], now) \o <<".">>
        \o RewardPart(task_data["Reward"], <<" Reward: ">>, <<".">>)

\* The ADD_TASK branch (lines 89-129).
\* The test of lines 109-110 asking only when both fields are unknown.
needs_deadline_both(chat_type, message_sender, due_date, due_time) ==
    /\ chat_type = "parent-mrfrench" /\ message_sender = PARENT
    /\ due_date = T("Unknown") /\ due_time = T("Unknown")

\* Lines 109-110: the Parent adds a task on parent-mrfrench without an exact
\* due date or due time.
needs_deadline(chat_type, message_sender, due_date, due_time) ==
    /\ chat_type = "parent-mrfrench" /\ message_sender = PARENT
    /\ (due_date = T("Unknown") \/ due_time = T("Unknown"))

handle_add_task(a, chat_type, message_sender, tbl, id, now, wall, dbUp) ==
    LET task_name == Get(a, "task", NONE)
        due_date  == Get(a, "Due_Date", T("Unknown"))
        due_time  == Get(a, "Due_Time", T("Unknown"))
        task_data == [task         |-> task_name,
                      is_completed |-> Get(a, "is_completed", T("Pending")),
                      Due_Date     |-> due_date,
                      Due_Time     |-> due_time,
                      Reward       |-> Get(a, "Reward", T("None"))]
        viaParent == chat_type = "parent-mrfrench" /\ message_sender = PARENT
    IN  IF ~Truthy(task_name)
        THEN [message |-> T("I couldn't identify the task you wanted to add."), tbl |-> tbl, msgs |-> <<>>]
        ELSE IF /\ find_task_by_name(tbl, task_name, dbUp) # <<>>
                /\ Get(a, "is_completed", NONE) \in {T("Pending"), T("Progress")}
        THEN [message |-> <<"The task '">> \o task_name
                            \o <<"' already exists. Would you like to update it instead?">>,
              tbl |-> tbl, msgs |-> <<>>]
        ELSE IF needs_deadline(chat_type, message_sender, due_date, due_time)
        THEN [message |-> <<"I can add '">> \o task_name
                            \o <<"'. What is the exact due date and time for it?">>,
              tbl |-> tbl, msgs |-> <<>>]
        ELSE Only({IF result.kind = "row"
                   THEN [message |-> AddedAgentMsg(task_data, wall), tbl |-> result.tbl,
                         msgs |-> IF viaParent THEN notify_timmy_new_task(task_data, wall) ELSE <<>>]
                   ELSE [message |-> <<"I had trouble adding '">> \o task_name
                                       \o <<"'. Please try again. Error: ">> \o result.error,
                         tbl |-> result.tbl, msgs |-> <<>>] :
                   result \in {add_task(tbl, task_data, id, now, dbUp)}})

\* The UPDATE_TASK branch (lines 131-152).
handle_update_task(a, tbl, now, dbUp) ==
    LET original_task_name == Get(a, "original_task_name", NONE)
        updates     == Get(a, "updates", EmptyDict)
        found_tasks == find_task_by_name(tbl, original_task_name, dbUp)
        result      == update_task(tbl, found_tasks[1].id, NONE, updates, now, dbUp)
        status_update == Get(updates, "is_completed", NONE)
    IN  IF ~Truthy(original_task_name) \/ DOMAIN updates = {}
        THEN [message |-> T("I couldn't identify which task to update or what updates to apply."),
              tbl |-> tbl, msgs |-> <<>>]
        ELSE IF found_tasks = <<>>
        THEN [message |-> <<"I couldn't find a task named '">> \o original_task_name \o <<"' to update.">>,
              tbl |-> tbl, msgs |-> <<>>]
        ELSE IF result.kind = "row"
        THEN [message |-> IF Truthy(status_update)
                          THEN <<"I've updated '">> \o found_tasks[1].task \o <<"' to '">>
                                   \o status_update \o <<"'.">>
                          ELSE <<"I've updated the task '">> \o found_tasks[1].task \o <<"' as requested.">>,
              tbl |-> result.tbl, msgs |-> <<>>]
        ELSE [message |-> <<"I had trouble updating '">> \o original_task_name
                            \o <<"'. Please try again. Error: ">> \o result.error,
              tbl |-> result.tbl, msgs |-> <<>>]

\* The DELETE_TASK branch (lines 154-172).
handle_delete_task(a, tbl, dbUp) ==
    LET task_to_delete == Get(a, "task", NONE)
        found_tasks    == find_task_by_name(tbl, task_to_delete, dbUp)
        result         == delete_task(tbl, found_tasks[1].id, NONE, dbUp)
    IN  IF ~Truthy(task_to_delete)
        THEN [message |-> T("I couldn't identify the task you wanted to delete."), tbl |-> tbl, msgs |-> <<>>]
        ELSE IF found_tasks = <<>>
        THEN [message |-> <<"I couldn't find a task named '">> \o task_to_delete \o <<"' to delete.">>,
              tbl |-> tbl, msgs |-> <<>>]
        ELSE IF result.kind = "success"
        THEN [message |-> <<"Okay, I've removed the task: '">> \o task_to_delete \o <<"'.">>,
              tbl |-> result.tbl, msgs |-> <<>>]
        ELSE [message |-> <<"I had trouble deleting '">> \o task_to_delete
                            \o <<"'. Please try again. Error: ">> \o result.error,
              tbl |-> result.tbl, msgs |-> <<>>]

\* handle_task_action(task_analysis, chat_type, message_sender): the message
\* returned, the table afterwards and the history writes; `now` stamps
\* updatedAt and `wall` is the time the deadline formatter reads.
handle_task_action(task_analysis, chat_type, message_sender, tbl, id, now, wall, dbUp) ==
    LET intent == Get(task_analysis, "intent", NONE)
    IN  IF intent = T("ADD_TASK")
        THEN handle_add_task(task_analysis, chat_type, message_sender, tbl, id, now, wall, dbUp)
        ELSE IF intent = T("UPDATE_TASK") THEN handle_update_task(task_analysis, tbl, now, dbUp)
        ELSE IF intent = T("DELETE_TASK") THEN handle_delete_task(task_analysis, tbl, dbUp)
        ELSE [message |-> <<>>, tbl |-> tbl, msgs |-> <<>>]

\* The agent analyses one message and acts on the analysis.
AgentTurn ==
    /\ pc = "idle"
    /\ nreq < MaxRequests
    /\ \E ct \in ChatTypes, sender \in UserTypes, message \in UserInputs, e \in Envs, out \in LLMOutputs :
       \E a \in {analyze_message_for_tasks(out)} :
       \E r \in {handle_task_action(a, ct, sender, tasks, nextTaskId, clock, e.now, e.dbUp)} :
        /\ req' = [endpoint |-> "agent", chat_type |-> ct, user_type |-> sender, user_input |-> message]
        /\ env' = e
        /\ llm_raw' = out
        /\ llm_gen' = NoLLM
        /\ llm_in' = <<>>
        /\ gen_in' = <<>>
        /\ history' = AddAll(history, analysis_log_msgs(message) \o r.msgs, nextMsgId, e.chromaUp)
        /\ nextMsgId' = nextMsgId + Written(analysis_log_msgs(message) \o r.msgs, e.chromaUp)
        /\ tasks' = r.tbl
        /\ nextTaskId' = IF Cardinality(r.tbl) > Cardinality(tasks) THEN nextTaskId + 1 ELSE nextTaskId
        /\ clock' = IF r.tbl # tasks THEN clock + 1 ELSE clock
        /\ response' = [status |-> "ok", analysis |-> a, message |-> r.message]
    /\ pc' = "done"
    /\ state' = NoState
    /\ trace' = <<>>
    /\ nreq' = nreq + 1
    /\ tasks0' = tasks
    /\ history0' = history
    /\ UNCHANGED zoneVars
    /\ UNCHANGED other

\* GET /logs/{chat_type}: the documents of the channel's log collection.
GetLogs ==
    /\ pc = "idle"
    /\ nreq < MaxRequests
    /\ \E ct \in ChatTypes, e \in {x \in Envs : x.dbUp} :
        /\ req' = [endpoint |-> "logs", chat_type |-> ct]
        /\ env' = e
        /\ response' = [status |-> "ok", logs |-> get_chat_history(history, log_collection[ct], 200, e.chromaUp)]
    /\ pc' = "done"
    /\ nreq' = nreq + 1
    /\ UNCHANGED zoneVars
    /\ UNCHANGED <<storeVars, state, trace, llm_raw, llm_in, gen_in, llm_gen, tasks0, history0>>
    /\ UNCHANGED other

(***************************************************************************)
(* reminder_scheduler.py: the hourly job.                                  *)
(***************************************************************************)
\* The reminders of send_due_task_reminders for the rows in listing order; a
\* row whose Due_Date is null makes .lower() raise, which ends the job.
RECURSIVE reminder_msgs(_)
reminder_msgs(rows) ==
    IF rows = <<>> \/ rows[1].Due_Date = NULL THEN <<>>
    ELSE (IF lower(rows[1].Due_Date) = T("today")
          THEN <<<<"timmy-parent", <<"Reminder: You have a pending task: ">> \o rows[1].task,
                   T("system"), MRFRENCH>>>>
          ELSE <<>>) \o reminder_msgs(Tail(rows))

send_due_task_reminders(tbl, dbUp) == reminder_msgs(get_tasks(tbl, T("Pending"), dbUp))

\* One run of the job, between two requests.
ReminderJob ==
    /\ pc = "idle"
    /\ nreq < MaxRequests
    /\ \E e \in Envs : \E msgs \in {send_due_task_reminders(tasks, e.dbUp)} :
        /\ history' = AddAll(history, msgs, nextMsgId, e.chromaUp)
        /\ nextMsgId' = nextMsgId + Written(msgs, e.chromaUp)
    /\ history0' = history'
    /\ nreq' = nreq + 1
    /\ UNCHANGED zoneVars
    /\ UNCHANGED <<tasks, nextTaskId, clock, pc, req, state, trace, llm_raw, llm_in, gen_in, llm_gen, response, env, tasks0>>
    /\ UNCHANGED other

Next ==
    \/ ChatRequest
    \/ StartNode
    \/ ParentTurnNode
    \/ MrFrenchAnalysisNode
    \/ MrFrenchResponseNode
    \/ ChatEndpointFinish
    \/ ParentTimmyMessage
    \/ AgentTurn
    \/ GetLogs
    \/ ReminderJob
    \/ Return
    \/ ResetConversation

Spec == Init /\ [][Next]_vars

(***************************************************************************)
(* find_similar_task on its own, over the tables add_task can build.       *)
(***************************************************************************)
SimNames == {<<"a", "b">>, <<"a", "b", "c">>, <<"a", "b", "x">>, <<"x", "y">>}

SimQueries == {<<"a", "b">>, <<"A", "B">>, <<"a", "b", "c">>, <<"x", "y">>, <<"c">>}

\* The latest updatedAt of a stored row.
MaxStamp == 3

SimRow(n, u) ==
    [SeedRow EXCEPT !.task = n, !.updatedAt = u,
                    !.id = IF n = <<"a", "b">> THEN 1 ELSE IF n = <<"a", "b", "c">> THEN 2
                           ELSE IF n = <<"a", "b", "x">> THEN 3 ELSE 4]

\* add_task refuses a name similar to a stored one, so stored names are
\* pairwise dissimilar; every write has its own timestamp.
SimTables ==
    {t \in SUBSET {SimRow(n, u) : n \in SimNames, u \in 1..MaxStamp} :
        \A r \in t : \A q \in t \ {r} :
            /\ r.updatedAt # q.updatedAt
            /\ ~RatioAtLeast(lower(r.task), lower(q.task), SIMILARITY_THRESHOLD)}

InitSim ==
    /\ tasks \in SimTables
    /\ nextTaskId = 5
    /\ clock = MaxStamp + 1
    /\ history = [c \in Collections |-> <<>>]
    /\ nextMsgId = 1
    /\ pc = "idle"
    /\ req = NoRequest
    /\ state = NoState
    /\ trace = <<>>
    /\ llm_raw = NoLLM
    /\ llm_gen = NoLLM
    /\ llm_in = <<>>
    /\ gen_in = <<>>
    /\ response = NoReturn
    /\ env = IdleEnv
    /\ nreq = 0
    /\ tasks0 = tasks
    /\ history0 = history
    /\ _timmy_zone = T("Green")
    /\ timmy = NULL
    /\ other = NoOther

\* One call of find_similar_task(task_name).
FindSimilarTask ==
    /\ pc = "idle"
    /\ \E name \in SimQueries, e \in {x \in Envs : x.chromaUp} :
        /\ req' = [endpoint |-> "find_similar_task", task_name |-> name]
        /\ env' = e
        /\ response' = [status |-> "ok", result |-> find_similar_task(tasks, name, e.dbUp)]
    /\ pc' = "done"
    /\ UNCHANGED zoneVars
    /\ UNCHANGED <<storeVars, state, trace, llm_raw, llm_in, gen_in, llm_gen, nreq, tasks0, history0>>
    /\ UNCHANGED other

NextSim == FindSimilarTask \/ Return

SpecSim == InitSim /\ [][NextSim]_vars

(***************************************************************************)
(* Properties.  A request is judged when its handler has finished          *)
(* (pc = "done"): tasks0 and history0 are the stores as the request found  *)
(* them.                                                                   *)
(***************************************************************************)
MediatorChannels == {"parent-mrfrench", "timmy-mrfrench"}

MediatorChat == req.endpoint = "chat" /\ req.chat_type \in MediatorChannels

\* The entries the current request has appended to a collection.
NewEntries(c) == SubSeq(history[c], Len(history0[c]) + 1, Len(history[c]))

MediatorPipeline == <<"start_node", "parent_turn", "mrfrench_analysis", "mrfrench_response">>

\* C1: a chat request on a mediator channel, by either speaker and for any
\* LLM outcome, runs Ingest (start_node, parent_turn), Analyze and
\* Mediator-Respond in that order and then ends; Mediator-Respond runs once.
C1_MediatorPipeline ==
    MediatorChat =>
        /\ Len(trace) <= Len(MediatorPipeline)
        /\ trace = SubSeq(MediatorPipeline, 1, Len(trace))
        /\ IF Len(trace) = Len(MediatorPipeline)
           THEN pc \in {"END", "done"}
           ELSE pc = MediatorPipeline[Len(trace) + 1]

C1_Witness ==
    /\ MediatorChat
    /\ pc = "done"
    /\ req.chat_type = "parent-mrfrench"
    /\ req.user_type = TIMMY
    /\ llm_raw.kind = "raise"
    /\ response.ai_response = RESPONSE_APOLOGY
    /\ trace = MediatorPipeline

\* C2 (as claimed): a Parent-authored chat request on parent-timmy runs Analyze
\* and then child_turn, which appends one Timmy reply to the conversation
\* state and to the parent-timmy log before the run ends.
C2_ChildRespondRuns ==
    (pc = "done" /\ req.endpoint = "chat" /\ req.chat_type = "parent-timmy"
        /\ req.user_type = PARENT /\ env.chromaUp) =>
        /\ trace = <<"start_node", "parent_turn", "mrfrench_analysis", "child_turn">>
        /\ \E i \in 1..Len(state.messages) : state.messages[i].role = T("assistant")
        /\ \E i \in 1..Len(NewEntries("parent-timmy")) :
              NewEntries("parent-timmy")[i].sender = TIMMY

\* C3 (as claimed): a Timmy-authored message on parent-timmy adds only the
\* ingest entry to the parent-timmy log, and no entry with an assistant role.
C3_ChildMessageOnlyIngest ==
    (pc = "done" /\ req.endpoint \in {"chat", "parent_timmy_message"}
        /\ req.chat_type = "parent-timmy" /\ req.user_type = TIMMY /\ env.chromaUp) =>
        /\ Len(NewEntries("parent-timmy")) = 1
        /\ \A i \in 1..Len(NewEntries("parent-timmy")) :
              NewEntries("parent-timmy")[i].role # T("assistant")

\* C4 (as claimed): a Timmy-authored message on parent-timmy ends after Ingest
\* without Analyze; whatever the LLM would extract, the task table is the
\* same after the request as before it.
C4_ChildMessageNoAnalyze ==
    (pc = "done" /\ req.endpoint \in {"chat", "parent_timmy_message"}
        /\ req.chat_type = "parent-timmy" /\ req.user_type = TIMMY) =>
        /\ tasks = tasks0
        /\ "mrfrench_analysis" \notin Range(trace)

\* The intent the observer extracted for the current request.
ExtractedIntent ==
    IF llm_raw.kind = "json" THEN Get(llm_raw.obj, "intent", NONE) ELSE NONE

\* C4 (amended): a Timmy-authored message on parent-timmy is analysed like a
\* Parent-authored one (the graph runs Analyze), and the task table differs
\* after the request only when the LLM extracted ADD_TASK, UPDATE_TASK or
\* DELETE_TASK from it; for every other outcome it is the same as before.
C4_ChildMessageAnalysed ==
    (pc = "done" /\ req.endpoint \in {"chat", "parent_timmy_message"}
        /\ req.chat_type = "parent-timmy" /\ req.user_type = TIMMY) =>
        /\ req.endpoint = "chat" => "mrfrench_analysis" \in Range(trace)
        /\ tasks # tasks0 =>
              ExtractedIntent \in {T("ADD_TASK"), T("UPDATE_TASK"), T("DELETE_TASK")}

C4_Witness ==
    /\ pc = "done"
    /\ req.endpoint = "parent_timmy_message"
    /\ req.user_type = TIMMY
    /\ ExtractedIntent = T("UPDATE_TASK")
    /\ tasks # tasks0

\* C5 (as claimed): one chat request on a mediator channel appends to that
\* channel's log exactly two entries, one for the inbound message and one for
\* the assistant reply, nodes and endpoint counted together.
C5_TwoEntriesPerMediatorChat ==
    (MediatorChat /\ pc = "done" /\ env.chromaUp) =>
        /\ Len(NewEntries(req.chat_type)) = 2
        /\ NewEntries(req.chat_type)[1].content = req.user_input
        /\ NewEntries(req.chat_type)[2].content = response.ai_response

\* C6 (as claimed): the entry parent_turn_node appends to the channel's log has
\* the inbound text as content and the request's speaker as sender.
C6_IngestEntry ==
    (req.endpoint = "chat" /\ pc = "mrfrench_analysis" /\ env.chromaUp) =>
        /\ Len(NewEntries(req.chat_type)) = 1
        /\ NewEntries(req.chat_type)[1].content = req.user_input
        /\ NewEntries(req.chat_type)[1].sender = req.user_type

\* Every entry of the old log is still there, unchanged and in its place.
Extends(old, new) ==
    \A c \in DOMAIN old :
        /\ Len(new[c]) >= Len(old[c])
        /\ SubSeq(new[c], 1, Len(old[c])) = old[c]

IdsDistinct(h) ==
    \A c, d \in DOMAIN h : \A i \in 1..Len(h[c]), j \in 1..Len(h[d]) :
        (c # d \/ i # j) => h[c][i].id # h[d][j].id

EntryCount(h) ==
    Len(h["parent-timmy"]) + Len(h["parent-mrfrench"]) + Len(h["timmy-mrfrench"])
        + Len(h["timmy-parent"]) + Len(h["mrfrench-logs"])

\* C7: the log is append-only without deduplication: a step other than the
\* bulk reset keeps every existing entry as it is, every successful
\* add_message_to_history call (each takes one fresh id) adds exactly one
\* entry, also when an equal entry exists, and no two entries share an id.
C7_AppendOnly ==
    [][/\ ResetConversation \/ Extends(history, history')
       /\ ~ResetConversation =>
              EntryCount(history') - EntryCount(history) = nextMsgId' - nextMsgId
       /\ (pc = "parent_turn" /\ env.chromaUp) =>
              Len(history'[req.chat_type]) = Len(history[req.chat_type]) + 1
       /\ IdsDistinct(history')]_vars

C7_Witness ==
    \E i, j \in 1..Len(history["parent-mrfrench"]) :
        /\ i < j
        /\ history["parent-mrfrench"][i].content = history["parent-mrfrench"][j].content
        /\ history["parent-mrfrench"][i].role = history["parent-mrfrench"][j].role
        /\ history["parent-mrfrench"][i].sender = history["parent-mrfrench"][j].sender
        /\ history["parent-mrfrench"][i].id # history["parent-mrfrench"][j].id

\* The current request carries an ADD_TASK analysis that names the task and
\* gives its due date and due time.
AddIntent ==
    /\ req.endpoint \in {"chat", "agent"}
    /\ llm_raw.kind = "json"
    /\ Get(llm_raw.obj, "intent", NONE) = T("ADD_TASK")
    /\ Truthy(Get(llm_raw.obj, "task", NONE))
    /\ Get(llm_raw.obj, "Due_Date", T("Unknown")) # T("Unknown")
    /\ Get(llm_raw.obj, "Due_Time", T("Unknown")) # T("Unknown")

\* The name is similar (ratio >= 0.8) to a task the request found in the table.
SimilarExists == find_similar_task(tasks0, llm_raw.obj["task"], TRUE) # <<>>

\* The confirmation handed to the response step.
Confirmation ==
    IF req.endpoint = "chat" THEN state.mr_french_task_action_response ELSE response.message

IsDuplicateWarning(msg) ==
    \E i \in 1..Len(msg) :
        msg[i] \in {"This task already exists.",
                    "' already exists. Would you like to update it instead?"}

SaysAdded(msg) == msg # <<>> /\ msg[1] = "Okay, I've added the task: '"

\* C8 (as claimed): an ADD_TASK whose name is similar to no existing task
\* creates exactly one record, and the confirmation contains the deadline as
\* _format_deadline renders the record's due date and due time.
C8_AddCreatesAndFormats ==
    (pc = "done" /\ AddIntent /\ env.dbUp /\ ~SimilarExists) =>
        /\ tasks0 \subseteq tasks
        /\ Cardinality(tasks \ tasks0) = 1
        /\ \A r \in tasks \ tasks0 :
              Contains(Confirmation, _format_deadline(r.Due_Date, r.Due_Time, env.now))

\* C9 (as claimed): an ADD_TASK whose name is similar to an existing task
\* inserts nothing, and the confirmation is a duplicate warning, never a
\* statement that the task was added.
C9_DuplicateWarned ==
    (pc = "done" /\ AddIntent /\ env.dbUp /\ SimilarExists) =>
        /\ tasks = tasks0
        /\ IsDuplicateWarning(Confirmation)
        /\ ~SaysAdded(Confirmation)

\* C10 (as claimed): an ADD_TASK on parent-mrfrench that creates a task appends
\* exactly one Mr. French notification describing the assignment to the
\* timmy-mrfrench log; a rejected one, or one on parent-timmy, appends none.
C10_NotificationOnlyOnCreate ==
    (pc = "done" /\ AddIntent /\ env.chromaUp /\ req.chat_type # "timmy-mrfrench") =>
        IF req.chat_type = "parent-mrfrench" /\ tasks # tasks0
        THEN /\ Len(NewEntries("timmy-mrfrench")) = 1
             /\ NewEntries("timmy-mrfrench")[1].sender = MRFRENCH
             /\ Contains(NewEntries("timmy-mrfrench")[1].content, llm_raw.obj["task"])
        ELSE NewEntries("timmy-mrfrench") = <<>>


(***************************************************************************)
(* Updating and deleting tasks.                                            *)
(***************************************************************************)
\* The request's analysis is an UPDATE_TASK naming a task and carrying updates.
UpdateIntent ==
    /\ req.endpoint \in {"chat", "agent", "parent_timmy_message"}
    /\ llm_raw.kind = "json"
    /\ Get(llm_raw.obj, "intent", NONE) = T("UPDATE_TASK")
    /\ Truthy(Get(llm_raw.obj, "original_task_name", NONE))
    /\ DOMAIN Get(llm_raw.obj, "updates", EmptyDict) # {}

\* The request's analysis is a DELETE_TASK naming a task.
DeleteIntent ==
    /\ req.endpoint \in {"chat", "agent"}
    /\ llm_raw.kind = "json"
    /\ Get(llm_raw.obj, "intent", NONE) = T("DELETE_TASK")
    /\ Truthy(Get(llm_raw.obj, "task", NONE))

SaysCouldNotFind(msg) == msg # <<>> /\ msg[1] = "I couldn't find a task named '"

SaysUpdated(msg) == msg # <<>> /\ msg[1] \in {"I've updated '", "I've updated the task '"}

SaysRemoved(msg) ==
    msg # <<>> /\ msg[1] \in {"I've removed the task: '", "Okay, I've removed the task: '"}

\* C11 (as claimed): an UPDATE_TASK whose original_task_name matches no task of
\* the table, exactly or by similarity, leaves the table as it was and is
\* answered by a 'could not find' confirmation, never by an 'updated' one.
C11_UnknownUpdateNotFound ==
    (pc = "done" /\ UpdateIntent /\ req.endpoint \in {"chat", "agent"} /\ env.dbUp
        /\ find_similar_task(tasks0, llm_raw.obj["original_task_name"], TRUE) = <<>>) =>
        /\ tasks = tasks0
        /\ SaysCouldNotFind(Confirmation)
        /\ ~SaysUpdated(Confirmation)

\* C12: whenever an UPDATE_TASK request changes the table, exactly one row
\* changed, it keeps its id, and its updatedAt is strictly greater than
\* before; when the update sets is_completed to Completed on a row that was
\* Pending, the Completed listing contains the row and the Pending listing
\* does not.
C12_UpdateMovesAndRefreshes ==
    (pc = "done" /\ UpdateIntent /\ tasks # tasks0) =>
        \E r0 \in tasks0 : \E r \in tasks :
            /\ r.id = r0.id
            /\ tasks \ {r} = tasks0 \ {r0}
            /\ r.updatedAt > r0.updatedAt
            /\ (/\ Get(llm_raw.obj["updates"], "is_completed", NONE) = T("Completed")
                /\ r0.is_completed = T("Pending")) =>
                    /\ r \in Range(get_tasks(tasks, T("Completed"), TRUE))
                    /\ \A p \in Range(get_tasks(tasks, T("Pending"), TRUE)) : p.id # r.id

C12_Witness ==
    /\ pc = "done" /\ UpdateIntent /\ req.endpoint = "chat"
    /\ \E r0 \in tasks0 : \E r \in tasks :
        /\ r.id = r0.id
        /\ r0.is_completed = T("Pending")
        /\ r.is_completed = T("Completed")
        /\ r.updatedAt > r0.updatedAt

\* C13 (as claimed): on every path that handles UPDATE_TASK, a name that
\* matches no task exactly but is similar (ratio >= 0.8) to a task of the
\* table resolves to that task, which is then updated.
C13_FuzzyFallbackEverywhere ==
    (pc = "done" /\ UpdateIntent /\ env.dbUp
        /\ find_task_by_name(tasks0, llm_raw.obj["original_task_name"], TRUE) = <<>>
        /\ find_similar_task(tasks0, llm_raw.obj["original_task_name"], TRUE) # <<>>) =>
        \E r0 \in tasks0 : \E r \in tasks :
            /\ r0 = find_similar_task(tasks0, llm_raw.obj["original_task_name"], TRUE)[1]
            /\ r.id = r0.id
            /\ r.updatedAt > r0.updatedAt

\* C14 (as claimed): a DELETE_TASK naming an existing task leaves the table
\* without it and is confirmed as a removal; one matching no task leaves the
\* table as it was and is answered 'could not find'; a removal is confirmed
\* only when a record was deleted.
C14_DeleteRemovesOrReports ==
    (pc = "done" /\ DeleteIntent /\ env.dbUp) =>
        /\ find_task_by_name(tasks0, llm_raw.obj["task"], TRUE) # <<>> =>
              /\ find_task_by_name(tasks, llm_raw.obj["task"], TRUE) = <<>>
              /\ SaysRemoved(Confirmation)
        /\ find_similar_task(tasks0, llm_raw.obj["task"], TRUE) = <<>> =>
              /\ tasks = tasks0
              /\ SaysCouldNotFind(Confirmation)
        /\ SaysRemoved(Confirmation) => tasks # tasks0


(***************************************************************************)
(* What changes the task table, and what an inquiry reports.               *)
(***************************************************************************)
MutatingIntents == {T("ADD_TASK"), T("UPDATE_TASK"), T("DELETE_TASK")}

\* The step handles an analysis: the workflow's analysis node, the
\* parent-timmy observer or the agent.
HandlesAnalysis ==
    \/ pc = "mrfrench_analysis"
    \/ pc = "idle" /\ pc' = "done" /\ req'.endpoint \in {"parent_timmy_message", "agent"}

\* The step is the bulk reset.
IsReset == pc = "idle" /\ pc' = "idle" /\ tasks' = {} /\ nreq' = nreq

Matched(tbl, query_type, specific_task) ==
    IF query_type = T("pending") THEN {r \in tbl : r.is_completed = T("Pending")}
    ELSE IF query_type = T("progress") THEN {r \in tbl : r.is_completed = T("Progress")}
    ELSE IF query_type = T("completed") THEN {r \in tbl : r.is_completed = T("Completed")}
    ELSE IF query_type = T("specific") /\ specific_task # <<>>
    THEN {r \in tbl : \E i \in 1..Len(r.task), j \in 0..Len(r.task) :
                        lower(SubSeq(r.task, i, j)) = lower(specific_task)}
    ELSE tbl

\* The chat request analysed a TASK_INQUIRY while the table could be read.
InquiryDone ==
    /\ pc = "done" /\ req.endpoint = "chat" /\ env.dbUp
    /\ ExtractedIntent = T("TASK_INQUIRY")

\* C16: the tasks a TASK_INQUIRY stores for the reply are exactly the tasks
\* with the queried status for pending, progress and completed, the tasks
\* whose name contains the given substring (case-insensitively) for
\* specific, and all tasks otherwise; each task is listed once.
C16_InquiryMatchedSet ==
    InquiryDone =>
        /\ Has(state.mr_french_analysis, "task_inquiry_data")
        /\ Range(state.mr_french_analysis["task_inquiry_data"])
             = Matched(tasks0, Get(llm_raw.obj, "query_type", T("all")),
                       Get(llm_raw.obj, "specific_task", <<>>))
        /\ Len(state.mr_french_analysis["task_inquiry_data"])
             = Cardinality(Range(state.mr_french_analysis["task_inquiry_data"]))

\* A substring inquiry in another case than the stored name reported some but
\* not all of the tasks.
C16_Witness ==
    /\ InquiryDone
    /\ Get(llm_raw.obj, "query_type", NONE) = T("specific")
    /\ Get(llm_raw.obj, "specific_task", <<>>) = <<"B">>
    /\ Range(state.mr_french_analysis["task_inquiry_data"]) # {}
    /\ Range(state.mr_french_analysis["task_inquiry_data"]) # tasks0


(***************************************************************************)
(* Outputs the analysis cannot use, and failures of the LLM and the log.   *)
(***************************************************************************)
EnumeratedIntents ==
    {T("ADD_TASK"), T("UPDATE_TASK"), T("DELETE_TASK"), T("TASK_INQUIRY"), T("QUERY_TASKS"),
     T("SET_TIMMY_ZONE_RED"), T("SET_TIMMY_ZONE_BLUE"), T("NO_TASK_IDENTIFIED")}

NoTaskIntents == {T("NO_TASK_IDENTIFIED"), T("NO_TASK")}

\* The analysis the chat workflow keeps in its state.
StoredAnalysis ==
    IF Has(state.mr_french_analysis, "mr_french_analysis")
    THEN state.mr_french_analysis["mr_french_analysis"] ELSE EmptyDict

\* The intent the request holds after its analysis.
RecordedIntent ==
    IF req.endpoint = "chat" THEN Get(StoredAnalysis, "intent", NONE)
    ELSE IF req.endpoint = "parent_timmy_message" THEN response.mrfrench_action
    ELSE Get(response.analysis, "intent", NONE)

\* C17 (as claimed): after the analysis, whatever the LLM returned, the intent
\* held is one of the enumerated values or the no-task intent; an output that
\* is no JSON, has no intent or has an intent outside the enumerated set is
\* held as the no-task intent, and the task table is not changed for it.
C17_IntentNormalised ==
    (pc = "done" /\ req.endpoint \in {"chat", "parent_timmy_message", "agent"}
        /\ response.status = "ok") =>
        /\ RecordedIntent \in EnumeratedIntents \cup NoTaskIntents
        /\ ExtractedIntent \notin EnumeratedIntents \cup NoTaskIntents =>
              /\ RecordedIntent \in NoTaskIntents
              /\ tasks = tasks0

C19_ApologyLogged ==
    (pc = "END" /\ req.endpoint = "chat" /\ trace[Len(trace)] = "mrfrench_response"
        /\ llm_gen.kind = "raise" /\ env.chromaUp) =>
        /\ state.messages[Len(state.messages)] = [role |-> T("assistant"), content |-> RESPONSE_APOLOGY]
        /\ Len(history[req.chat_type]) > Len(history0[req.chat_type])
        /\ history[req.chat_type][Len(history[req.chat_type])].content = RESPONSE_APOLOGY
        /\ history[req.chat_type][Len(history[req.chat_type])].role = T("assistant")

\* C20: a chat request during which ChromaDB cannot be written returns its
\* reply all the same: no write raises, the collections are as the request
\* found them, and the caller gets the reply the graph produced.
C20_LogFailureNotPropagated ==
    (req.endpoint = "chat" /\ ~env.chromaUp) =>
        /\ pc # "failed"
        /\ history = history0
        /\ pc = "done" =>
              /\ response.status = "ok"
              /\ MediatorChat => response.ai_response = LastAssistant(state.messages, NO_RESPONSE)
              /\ ~MediatorChat => response.message = NO_RESPONSE

C20_Witness ==
    /\ pc = "done" /\ MediatorChat /\ ~env.chromaUp
    /\ llm_gen.kind = "text"
    /\ response.status = "ok"
    /\ response.ai_response = llm_gen.content
    /\ history = history0


(***************************************************************************)
(* The audit log and the context of the analysis call.                     *)
(***************************************************************************)
\* C21 (as claimed): a request whose analysis ran has appended an entry to
\* the log collection of its channel, the one GET /logs/{chat_type} reads.
C21_AnalysisAudited ==
    (pc = "done" /\ env.chromaUp
        /\ \/ req.endpoint = "chat" /\ "mrfrench_analysis" \in Range(trace)
           \/ req.endpoint = "agent") =>
        Len(history[log_collection[req.chat_type]]) > Len(history0[log_collection[req.chat_type]])

\* The newest n documents of a collection, oldest first, as role and content.
Recent(docs, n) ==
    [i \in 1..(IF Len(docs) < n THEN Len(docs) ELSE n) |->
        [role    |-> docs[i + (IF Len(docs) < n THEN 0 ELSE Len(docs) - n)].role,
         content |-> docs[i + (IF Len(docs) < n THEN 0 ELSE Len(docs) - n)].content]]

\* C22 (as claimed): the list handed to the analysis call is the instruction
\* template with the task context, then the channel's newest History Log
\* entries (at most 10) in chronological order, then the current user input.
C22_AnalysisContext ==
    (pc = "mrfrench_response" /\ req.endpoint = "chat" /\ env.chromaUp) =>
        llm_in = <<[role |-> T("system"),
                    content |-> <<"analysis_prompt">> \o tasks_context(get_tasks(tasks0, NONE, env.dbUp))]>>
                 \o Recent(history[req.chat_type], 10)
                 \o <<[role |-> T("user"), content |-> req.user_input]>>


(***************************************************************************)
(* The columns of a task record.                                           *)
(***************************************************************************)
Statuses == {T("Pending"), T("Progress"), T("Completed")}

\* C23 (as claimed): every task record that carries a status carries one of
\* Pending, Progress, Completed, whatever fields the analysis returned.
C23_StatusEnumerated ==
    \A r \in tasks : r.is_completed # NULL => r.is_completed \in Statuses

\* C24 (as claimed): a record created for an ADD_TASK that leaves out the
\* status, due date, due time or reward has Pending, Today, Unknown and None
\* in the column left out.
C24_AddDefaults ==
    (pc = "done" /\ req.endpoint \in {"chat", "agent"} /\ llm_raw.kind = "json"
        /\ Get(llm_raw.obj, "intent", NONE) = T("ADD_TASK")) =>
        \A r \in tasks \ tasks0 :
            /\ ~Has(llm_raw.obj, "is_completed") => r.is_completed = T("Pending")
            /\ ~Has(llm_raw.obj, "Due_Date") => r.Due_Date = T("Today")
            /\ ~Has(llm_raw.obj, "Due_Time") => r.Due_Time = T("Unknown")
            /\ ~Has(llm_raw.obj, "Reward") => r.Reward = T("None")


(***************************************************************************)
(* Which task a name resolves to.                                          *)
(***************************************************************************)
\* ratio(stored name, w) as a fraction <<numerator, denominator>>.
SimRatio(r, w) == RatioPair(lower(r.task), w)

\* C25 (as claimed): find_similar_task returns nothing when no stored name
\* reaches the threshold; otherwise the stored task of highest similarity,
\* and among tasks of equal highest similarity the most recently updated.
C25_MostSimilarMostRecent ==
    (pc = "done" /\ req.endpoint = "find_similar_task" /\ env.dbUp) =>
        \A w \in {lower(req.task_name)} :
        \A sims \in {{r \in tasks : RatioAtLeast(lower(r.task), w, SIMILARITY_THRESHOLD)}} :
            IF sims = {} THEN response.result = <<>>
            ELSE \E r \in sims :
                    /\ response.result = <<r>>
                    /\ \A q \in sims :
                        \/ SimRatio(q, w)[1] * SimRatio(r, w)[2] < SimRatio(r, w)[1] * SimRatio(q, w)[2]
                        \/ /\ SimRatio(q, w)[1] * SimRatio(r, w)[2] = SimRatio(r, w)[1] * SimRatio(q, w)[2]
                           /\ q.updatedAt <= r.updatedAt


(***************************************************************************)
(* The entries of the History Log.                                         *)
(***************************************************************************)
Roles == {T("user"), T("assistant"), T("system")}

\* C26 (as claimed): every entry a chat request appends to a collection has
\* a role among user, assistant, system: user for the inbound message,
\* assistant for replies and notifications.
C26_RolesDerived ==
    req.endpoint = "chat" =>
        \A c \in Collections : \A i \in (Len(history0[c]) + 1)..Len(history[c]) :
            /\ history[c][i].role \in Roles
            /\ history[c][i].content = req.user_input => history[c][i].role = T("user")

AuditLogs == {"mrfrench-logs"} \cup {log_collection[ct] : ct \in ChatTypes}

\* C27 (as claimed): every write goes to one of the three channel collections
\* or to an audit log; no other collection ever holds an entry.
C27_FixedChannels ==
    \A c \in Collections \ (ChatTypes \cup AuditLogs) : history[c] = <<>>

(***************************************************************************)
(* The Timmy Zone: the class attribute of MrFrenchAgent, the row of the    *)
(* table "timmy", and the placeholder heuristic of the agent.              *)
(***************************************************************************)
valid_zones == {T("Red"), T("Green"), T("Blue")}

\* What a caller may pass as a zone: the three zones, the value of the
\* agent's own test block, a wrong case, and the empty string.
ZoneInputs == valid_zones \cup {T("InvalidZone"), T("red"), <<>>}

\* MrFrenchAgent.set_timmy_zone with the validity test left out.
set_timmy_zone_unchecked(cur, zone) == zone

\* MrFrenchAgent.set_timmy_zone: the new value of cls._timmy_zone.
set_timmy_zone(cur, zone) == IF zone \in valid_zones THEN zone ELSE cur

\* supabase_service.get_timmy_zone: 'Green' when there is no row or the query fails.
get_timmy_zone(row, dbUp) == IF dbUp /\ row # NULL THEN row ELSE T("Green")

\* supabase_service.update_timmy_zone: the row afterwards and the dict returned.
update_timmy_zone(row, zone, dbUp) ==
    IF zone \notin valid_zones
    THEN [row |-> row, result |-> [error |-> <<"Invalid zone '">> \o zone \o <<"'. Must be one of ['Red', 'Green', 'Blue'].">>]]
    ELSE IF ~dbUp THEN [row |-> row, result |-> [error |-> T("exception")]]
    ELSE [row |-> zone, result |-> [id |-> 1, zone |-> zone]]

NO_CHANGE == T("No significant change detected")

\* MrFrenchAgent.evaluate_timmy_behavior_for_zone_change: the reason returned.
evaluate_timmy_behavior_for_zone_change(tbl, zone, dbUp) ==
    IF Len(get_tasks(tbl, T("Pending"), dbUp)) >= 5 /\ zone = T("Green")
    THEN T("Many pending tasks")
    ELSE NO_CHANGE

\* The f-string of check_and_trigger_parent_notification.
message_to_parent(trigger_reason) ==
    <<"Dear Parent, I've observed that Timmy is currently facing a challenge. Reason: ">>
        \o trigger_reason \o <<". Would you like to discuss this?">>

\* Five task names no two of which are similar.
ZoneNames == << <<"a", "b">>, <<"x", "y">>, <<"c", "a">>, <<"b", "x">>, <<"y", "c">> >>

\* Row i of a table of Pending tasks due today, the first k of them at 08:30.
ZoneRow(i, k) ==
    [SeedRow EXCEPT !.id = i, !.task = ZoneNames[i], !.updatedAt = i,
                    !.Due_Time = IF i <= k THEN T("08:30") ELSE T("evening")]

ZoneTables == {{ZoneRow(i, k) : i \in 1..n} : n \in {0, 3, 5}, k \in {0, 3}}

\* The test of process_recurring_tasks with the status of the task ignored.
is_recurring_any_status(task, current_day_of_week) ==
    \/ Contains(lower(task.task), T("everyday"))
    \/ Contains(lower(task.task), T("daily"))
    \/ lower(task.Due_Date) = T("daily")
    \/ /\ Contains(lower(task.Due_Date), lower(T(current_day_of_week)))
       /\ Contains(lower(task.Due_Date), T("every"))

\* (is_daily_recurring or is_weekly_recurring_on_day) and is_completed == "Completed"
is_recurring(task, current_day_of_week) ==
    /\ \/ Contains(lower(task.task), T("everyday"))
       \/ Contains(lower(task.task), T("daily"))
       \/ lower(task.Due_Date) = T("daily")
       \/ /\ Contains(lower(task.Due_Date), lower(T(current_day_of_week)))
          /\ Contains(lower(task.Due_Date), T("every"))
    /\ task.is_completed = T("Completed")

\* The loop of process_recurring_tasks over the list read at its start: the
\* table and the clock after the update_task calls.
RECURSIVE reset_recurring(_, _, _, _, _)
reset_recurring(all_tasks, tbl, now, current_day_of_week, dbUp) ==
    IF all_tasks = <<>> THEN [tbl |-> tbl, now |-> now]
    ELSE IF is_recurring(all_tasks[1], current_day_of_week)
    THEN reset_recurring(Tail(all_tasks),
                         update_task(tbl, all_tasks[1].id, NONE, [is_completed |-> T("Pending")], now, dbUp).tbl,
                         now + 1, current_day_of_week, dbUp)
    ELSE reset_recurring(Tail(all_tasks), tbl, now, current_day_of_week, dbUp)

\* MrFrenchAgent.process_recurring_tasks
process_recurring_tasks(tbl, now, wall, dbUp) ==
    reset_recurring(get_tasks(tbl, NONE, dbUp), tbl, now, DayName[weekday(wall.day) + 1], dbUp)

\* Tasks as the daily job may find them: named daily or everyday, due daily,
\* due every Monday, not recurring at all, and recurring but still Pending.
RecurringRows ==
    {[SeedRow EXCEPT !.id = 1, !.task = <<"Daily", " ", "a", "b">>, !.is_completed = T("Completed")],
     [SeedRow EXCEPT !.id = 2, !.updatedAt = 2, !.task = <<"x", "y", " ", "everyday">>,
                     !.is_completed = T("Completed"), !.Due_Time = T("evening")],
     [SeedRow EXCEPT !.id = 3, !.updatedAt = 3, !.task = <<"c", "a">>, !.is_completed = T("Completed"),
                     !.Due_Date = T("Daily"), !.Reward = T("healthy smile")],
     [SeedRow EXCEPT !.id = 4, !.updatedAt = 4, !.task = <<"b", "x">>, !.is_completed = T("Completed"),
                     !.Due_Date = <<"every", " ", "Monday">>],
     [SeedRow EXCEPT !.id = 5, !.updatedAt = 5, !.task = <<"y", "c">>, !.is_completed = T("Completed")],
     [SeedRow EXCEPT !.id = 6, !.updatedAt = 6, !.task = <<"y", "y", "b">>, !.Due_Date = T("daily")]}

InitZone ==
    /\ tasks \in ZoneTables \cup (SUBSET RecurringRows)
    /\ nextTaskId = 7
    /\ clock = 7
    /\ history = [c \in Collections |-> <<>>]
    /\ nextMsgId = 1
    /\ pc = "idle"
    /\ req = NoRequest
    /\ state = NoState
    /\ trace = <<>>
    /\ llm_raw = NoLLM
    /\ llm_gen = NoLLM
    /\ llm_in = <<>>
    /\ gen_in = <<>>
    /\ response = NoReturn
    /\ env = IdleEnv
    /\ nreq = 0
    /\ tasks0 = tasks
    /\ history0 = history
    /\ _timmy_zone = T("Green")
    /\ timmy = NULL
    /\ other = NoOther

\* One call of MrFrenchAgent.set_timmy_zone(zone); it returns nothing.
SetTimmyZone ==
    /\ pc = "idle"
    /\ \E zone \in ZoneInputs :
        /\ req' = [endpoint |-> "set_timmy_zone", zone |-> zone]
        /\ _timmy_zone' = set_timmy_zone(_timmy_zone, zone)
    /\ response' = [status |-> "ok"]
    /\ env' = IdleEnv
    /\ pc' = "done"
    /\ UNCHANGED <<storeVars, timmy, state, trace, llm_raw, llm_in, gen_in, llm_gen, nreq, tasks0, history0>>
    /\ UNCHANGED other

\* GET /timmy-zone
GetTimmyZoneEndpoint ==
    /\ pc = "idle"
    /\ \E e \in {x \in Envs : x.chromaUp} :
        /\ env' = e
        /\ response' = [status |-> "ok", zone |-> get_timmy_zone(timmy, e.dbUp)]
    /\ req' = [endpoint |-> "get_timmy_zone"]
    /\ pc' = "done"
    /\ UNCHANGED <<storeVars, zoneVars, state, trace, llm_raw, llm_in, gen_in, llm_gen, nreq, tasks0, history0>>
    /\ UNCHANGED other

\* POST /timmy-zone
UpdateTimmyZoneEndpoint ==
    /\ pc = "idle"
    /\ \E zone \in ZoneInputs, e \in {x \in Envs : x.chromaUp} :
       \E r \in {update_timmy_zone(timmy, zone, e.dbUp)} :
        /\ req' = [endpoint |-> "update_timmy_zone", zone |-> zone]
        /\ env' = e
        /\ IF zone = <<>> \/ zone \notin {T("Red"), T("Green"), T("Blue")}
           THEN /\ response' = [status |-> 400,
                                detail |-> T("Invalid zone. Must be 'Red', 'Green', or 'Blue'.")]
                /\ timmy' = timmy
           ELSE /\ timmy' = r.row
                /\ response' = IF "error" \in DOMAIN r.result
                               THEN [status |-> 400, detail |-> r.result.error]
                               ELSE [status |-> "ok", zone |-> r.result.zone]
    /\ pc' = "done"
    /\ UNCHANGED <<storeVars, _timmy_zone, state, trace, llm_raw, llm_in, gen_in, llm_gen, nreq, tasks0, history0>>
    /\ UNCHANGED other

\* One run of MrFrenchAgent.check_and_trigger_parent_notification.
CheckAndTriggerParentNotification ==
    /\ pc = "idle"
    /\ nreq < MaxRequests
    /\ \E e \in Envs :
       \E trigger_reason \in {evaluate_timmy_behavior_for_zone_change(tasks, _timmy_zone, e.dbUp)} :
       \E msgs \in {IF trigger_reason # NO_CHANGE
                    THEN <<<<"parent-mrfrench", message_to_parent(trigger_reason),
                             T("assistant"), T("Mr. French")>>>>
                    ELSE <<>>} :
        /\ env' = e
        /\ history' = AddAll(history, msgs, nextMsgId, e.chromaUp)
        /\ nextMsgId' = nextMsgId + Written(msgs, e.chromaUp)
        /\ response' = [status |-> "ok", trigger_reason |-> trigger_reason,
                        message |-> IF trigger_reason # NO_CHANGE
                                    THEN message_to_parent(trigger_reason) ELSE <<>>]
    /\ req' = [endpoint |-> "check_and_trigger_parent_notification"]
    /\ pc' = "done"
    /\ nreq' = nreq + 1
    /\ tasks0' = tasks
    /\ history0' = history
    /\ UNCHANGED <<tasks, nextTaskId, clock, zoneVars, state, trace, llm_raw, llm_in, gen_in, llm_gen>>
    /\ UNCHANGED other

\* One run of the daily job MrFrenchAgent.process_recurring_tasks, on a
\* Monday or a Tuesday.
ProcessRecurringTasks ==
    /\ pc = "idle"
    /\ nreq < MaxRequests
    /\ \E d \in BOOLEAN, day \in {0, 1} :
       \E e \in {[dbUp |-> d, chromaUp |-> TRUE, now |-> [day |-> day, min |-> 600]]} :
       \E r \in {process_recurring_tasks(tasks, clock, e.now, e.dbUp)} :
        /\ env' = e
        /\ tasks' = r.tbl
        /\ clock' = r.now
    /\ req' = [endpoint |-> "process_recurring_tasks"]
    /\ response' = [status |-> "ok"]
    /\ pc' = "done"
    /\ nreq' = nreq + 1
    /\ tasks0' = tasks
    /\ history0' = history
    /\ UNCHANGED <<nextTaskId, history, nextMsgId, zoneVars, state, trace, llm_raw, llm_in, gen_in, llm_gen>>
    /\ UNCHANGED other

NextZone ==
    \/ ProcessRecurringTasks
    \/ SetTimmyZone
    \/ GetTimmyZoneEndpoint
    \/ UpdateTimmyZoneEndpoint
    \/ CheckAndTriggerParentNotification
    \/ Return

SpecZone == InitZone /\ [][NextZone]_vars

\* C28: the zone of the agent and the zone stored in the table are always one
\* of Red, Green, Blue (or no row yet), and a set request carrying any other
\* value changes neither; the endpoint answers such a request with an error.
ZoneSetRequest == {"set_timmy_zone", "update_timmy_zone"}

C28_ZoneAlwaysValid ==
    /\ [](/\ _timmy_zone \in valid_zones
          /\ timmy \in valid_zones \cup {NULL}
          /\ (pc = "done" /\ req.endpoint = "update_timmy_zone" /\ req.zone \notin valid_zones)
                => response.status = 400)
    /\ [][(pc = "idle" /\ pc' = "done" /\ req'.endpoint \in ZoneSetRequest
             /\ req'.zone \notin valid_zones)
            => (_timmy_zone' = _timmy_zone /\ timmy' = timmy)]_vars

C28_Witness ==
    /\ pc = "done"
    /\ req.endpoint = "set_timmy_zone"
    /\ req.zone = T("InvalidZone")
    /\ _timmy_zone = T("Blue")
    /\ timmy = T("Red")

\* C29: the zone heuristic suggests Red exactly when at least 5 tasks are
\* Pending or at least 3 Pending tasks due today are past their time.
DueMinute(r) ==
    LET tl == lower(r.Due_Time)
    IN  IF Len(tl) = 1 /\ tl[1] \in DOMAIN NamedTimes
        THEN NamedTimes[tl[1]][1] * 60 + NamedTimes[tl[1]][2]
        ELSE IF Len(r.Due_Time) = 1 /\ r.Due_Time[1] \in DOMAIN ParsedTimes
        THEN ParsedTimes[r.Due_Time[1]][1] * 60 + ParsedTimes[r.Due_Time[1]][2]
        ELSE 24 * 60

PendingRows == {r \in tasks : r.is_completed = T("Pending")}

SameDayOverdue == {r \in PendingRows : lower(r.Due_Date) = T("today") /\ DueMinute(r) < env.now.min}

C29_RedSuggested ==
    (pc = "done" /\ req.endpoint = "check_and_trigger_parent_notification" /\ env.dbUp) =>
        ((response.trigger_reason # NO_CHANGE) <=>
            (Cardinality(PendingRows) >= 5 \/ Cardinality(SameDayOverdue) >= 3))

(***************************************************************************)
(* _format_deadline on its own: every weekday, and times of day before     *)
(* and after the named phrases.                                            *)
(***************************************************************************)
DeadlineNows == {[day |-> d, min |-> m] : d \in 0..6, m \in {0, 600, 1260, 1439}}

DeadlineDates ==
    {T("Today"), T("today"), T("Tomorrow"), T("Monday"), T("friday"), T("someday"),
     T("2025-07-16"), T("2025-07-21"), T("2025-07-28"), T("2025-08-01")}

DeadlineTimes == {T("evening"), T("tonight"), T("Evening"), T("midnight"), T("17:00"),
                  T("Unknown"), T("later")}

\* One call of MrFrenchAgent._format_deadline(due_date, due_time).
FormatDeadline ==
    /\ pc = "idle"
    /\ \E due_date \in DeadlineDates, due_time \in DeadlineTimes, now \in DeadlineNows :
        /\ req' = [endpoint |-> "_format_deadline", due_date |-> due_date, due_time |-> due_time]
        /\ env' = [dbUp |-> TRUE, chromaUp |-> TRUE, now |-> now]
        /\ response' = [status |-> "ok", result |-> _format_deadline(due_date, due_time, now)]
    /\ pc' = "done"
    /\ UNCHANGED <<storeVars, zoneVars, state, trace, llm_raw, llm_in, gen_in, llm_gen, nreq, tasks0, history0>>
    /\ UNCHANGED other

NextDeadline == FormatDeadline \/ Return

SpecDeadline == Init /\ [][NextDeadline]_vars

\* C30: whatever the current time, 'Today' with 'evening' or 'tonight' is
\* rendered as 'Today at 9:00 PM'.
C30_TodayEvening ==
    (/\ pc = "done"
     /\ req.endpoint = "_format_deadline"
     /\ req.due_date = T("Today")
     /\ req.due_time \in {T("evening"), T("tonight")})
        => response.result = <<"Today", " at ", "9", ":", "0", "0", " ", "PM">>

C30_Witness ==
    /\ pc = "done"
    /\ req.endpoint = "_format_deadline"
    /\ req.due_date = T("Today")
    /\ req.due_time = T("tonight")
    /\ env.now = [day |-> 6, min |-> 1439]
    /\ response.result = <<"Today", " at ", "9", ":", "0", "0", " ", "PM">>

\* C31: the date part shown for a due date d whole days after today is
\* 'Today' (d = 0), 'Tomorrow' (d = 1), 'this <Weekday>' (2..7; 'next
\* <Weekday>' when the weekday is today's and the due time is already past),
\* 'next <Weekday>' (8..14), and the YYYY-MM-DD date beyond 14 days.
DueMinuteOf(due_time) ==
    LET tl == lower(due_time)
    IN  IF Len(tl) = 1 /\ tl[1] \in DOMAIN NamedTimes
        THEN NamedTimes[tl[1]][1] * 60 + NamedTimes[tl[1]][2]
        ELSE IF Len(due_time) = 1 /\ due_time[1] \in DOMAIN ParsedTimes
        THEN ParsedTimes[due_time[1]][1] * 60 + ParsedTimes[due_time[1]][2]
        ELSE 0

DateResolved(due_date) ==
    \/ lower(due_date) \in {T("today"), T("tomorrow")}
    \/ lower(due_date)[1] \in DOMAIN day_map
    \/ due_date[1] \in DOMAIN ISODates

ResolvedDay(due_date, due_time, now) ==
    LET dl == lower(due_date)
    IN  IF dl = T("today") THEN (IF lower(due_time) = T("midnight") THEN now.day + 1 ELSE now.day)
        ELSE IF dl = T("tomorrow") THEN now.day + 1
        ELSE IF dl[1] \in DOMAIN day_map
             THEN CHOOSE x \in now.day..(now.day + 6) : x % 7 = day_map[dl[1]]
        ELSE ISODates[due_date[1]]

DatePartOf(res) ==
    IF \E i \in 1..Len(res) : res[i] = " at "
    THEN SubSeq(res, 1, (CHOOSE i \in 1..Len(res) : res[i] = " at ") - 1)
    ELSE res

WeekdayName(day) ==
    <<"Monday", "Tuesday", "Wednesday", "Thursday", "Friday", "Saturday", "Sunday">>[(day % 7) + 1]

DaysAhead == ResolvedDay(req.due_date, req.due_time, env.now) - env.now.day

FormattedResolved ==
    /\ pc = "done"
    /\ req.endpoint = "_format_deadline"
    /\ DateResolved(req.due_date)

C31_DatePartByDistance ==
    (FormattedResolved /\ DaysAhead >= 0) =>
        \A d \in {DaysAhead} : \A day \in {ResolvedDay(req.due_date, req.due_time, env.now)} :
            DatePartOf(response.result) =
                IF d = 0 THEN <<"Today">>
                ELSE IF d = 1 THEN <<"Tomorrow">>
                ELSE IF d <= 7
                     THEN IF day % 7 = env.now.day % 7 /\ DueMinuteOf(req.due_time) < env.now.min
                          THEN <<"next ", WeekdayName(day)>>
                          ELSE <<"this ", WeekdayName(day)>>
                ELSE IF d <= 14 THEN <<"next ", WeekdayName(day)>>
                ELSE req.due_date

C31_Witness ==
    /\ FormattedResolved
    /\ DaysAhead = 7
    /\ req.due_time = T("17:00")
    /\ env.now.min = 1260
    /\ DatePartOf(response.result) = <<"next ", "Monday">>

\* C32: when the due-time phrase is no named phrase, no HH:MM and no H AM/PM,
\* the formatter's output is the date part alone, with no ' at ' suffix.
TimeResolved(due_time) ==
    \/ lower(due_time)[1] \in DOMAIN NamedTimes
    \/ due_time[1] \in DOMAIN ParsedTimes

C32_UnparsedTimeDateOnly ==
    (FormattedResolved /\ ~TimeResolved(req.due_time)) =>
        \A i \in 1..Len(response.result) : response.result[i] # " at "

\* C33: for a TASK_INQUIRY that matched no task, the instruction given to the
\* reply generation says that there are no such tasks and holds no listing;
\* otherwise every matched task has exactly one entry in the listing.
NoTasksPhrases ==
    {"The parent asked about pending tasks, but there are no pending tasks currently. Respond positively about this.",
     "The parent asked about tasks in progress, but there are no tasks currently in progress. Respond appropriately.",
     "The parent asked about completed tasks, but there are no completed tasks yet. Respond encouragingly.",
     "', but no matching tasks were found. Respond helpfully.",
     "The parent asked about tasks, but there are currently no tasks in the system. Respond helpfully."}

ListingHeads ==
    {"The parent asked about all of Timmy's tasks. Provide a helpful summary. Here are the current tasks: ",
     "The parent asked about Timmy's pending tasks. Here are the ",
     "The parent asked about Timmy's tasks in progress. Here are the ",
     "The parent asked about Timmy's completed tasks. Here are the ",
     "'. Here are the ",
     "The parent asked about tasks. Here are the relevant tasks: "}

EntriesOf(instr, name) ==
    {i \in 1..Len(instr) :
        /\ instr[i] = "\n- "
        /\ i + Len(name) + 1 <= Len(instr)
        /\ SubSeq(instr, i + 1, i + Len(name)) = name
        /\ instr[i + Len(name) + 1] = " (Status: "}

InquiryReplied ==
    /\ pc = "done" /\ req.endpoint = "chat"
    /\ ExtractedIntent = T("TASK_INQUIRY")
    /\ gen_in # <<>>

C33_InquiryInstruction ==
    InquiryReplied =>
        \A instr \in {gen_in[Len(gen_in)].content} :
        \A data \in {Get(state.mr_french_analysis, "task_inquiry_data", <<>>)} :
            IF data = <<>>
            THEN /\ \E i \in 1..Len(instr) : instr[i] \in NoTasksPhrases
                 /\ \A i \in 1..Len(instr) : instr[i] # "\n- " /\ instr[i] \notin ListingHeads
            ELSE /\ \A k \in 1..Len(data) : Cardinality(EntriesOf(instr, data[k].task)) = 1
                 /\ Cardinality({i \in 1..Len(instr) : instr[i] = "\n- "}) = Len(data)

C33_Witness ==
    /\ InquiryReplied
    /\ Len(Get(state.mr_french_analysis, "task_inquiry_data", <<>>)) = 2

\* C34 (as claimed): an ADD_TASK the agent handles for the Parent on
\* parent-mrfrench with an unknown or absent due date or due time creates no
\* task, sends Timmy nothing, and is answered by the question for the exact
\* due date and time.
ParentAddWithoutDeadline ==
    /\ pc = "done" /\ req.endpoint = "agent"
    /\ req.chat_type = "parent-mrfrench" /\ req.user_type = PARENT
    /\ Get(response.analysis, "intent", NONE) = T("ADD_TASK")
    /\ \/ Get(response.analysis, "Due_Date", T("Unknown")) = T("Unknown")
       \/ Get(response.analysis, "Due_Time", T("Unknown")) = T("Unknown")

AsksForDeadline ==
    /\ tasks = tasks0
    /\ history["timmy-mrfrench"] = history0["timmy-mrfrench"]
    /\ response.message # <<>>
    /\ response.message[Len(response.message)] = "'. What is the exact due date and time for it?"

C34_AskDeadline_claimed == ParentAddWithoutDeadline => AsksForDeadline

\* C34 (amended): the same, for an ADD_TASK that names a task and is not
\* turned away as already stored (a stored task of that name, found while the
\* store can be read, and a status of Pending or Progress in the request).
AlreadyStored ==
    /\ env.dbUp
    /\ \E r \in tasks0 : lower(strip(r.task)) = lower(strip(response.analysis["task"]))
    /\ Get(response.analysis, "is_completed", NONE) \in {T("Pending"), T("Progress")}

C34_AskDeadline ==
    (/\ ParentAddWithoutDeadline
     /\ Has(response.analysis, "task")
     /\ ~AlreadyStored) => AsksForDeadline

C34_Witness ==
    /\ ParentAddWithoutDeadline
    /\ Has(response.analysis, "task")
    /\ ~AlreadyStored
    /\ Get(response.analysis, "Due_Date", NONE) = T("Unknown")
    /\ Get(response.analysis, "Due_Time", NONE) = T("evening")
    /\ AsksForDeadline

\* C35: the daily job sets to Pending every Completed task that is recurring
\* (named daily or everyday, due daily, or due every <today's weekday>) and
\* changes nothing else: no other task, and of the tasks it resets only the
\* status and updatedAt.
Recurring(r) ==
    \/ \E i \in 1..Len(r.task) : lower(r.task)[i] \in {"everyday", "daily"}
    \/ lower(r.Due_Date) = <<"daily">>
    \/ lower(r.Due_Date) = <<"every", " ", lower(<<WeekdayName(env.now.day)>>)[1]>>

RecurringJobDone ==
    pc = "done" /\ req.endpoint = "process_recurring_tasks" /\ env.dbUp

GraphStep ==
    \/ StartNode
    \/ ParentTurnNode
    \/ MrFrenchAnalysisNode
    \/ MrFrenchResponseNode
    \/ ChatEndpointFinish

\* Chat requests alone, one after the other.
SpecFair == Init /\ [][ChatRequest \/ GraphStep \/ Return]_vars /\ WF_vars(GraphStep)

\* C36: a chat request, whatever the channel, the speaker and the outcome of
\* its LLM calls, runs each node at most once, at most four nodes in all,
\* and reaches the end of its handling.
ChatRunning == req.endpoint = "chat" /\ pc # "done"

C36_ChatTerminates ==
    /\ [](req.endpoint = "chat" =>
            /\ Len(trace) <= 4
            /\ \A i, j \in 1..Len(trace) : trace[i] = trace[j] => i = j)
    /\ (ChatRunning ~> (pc = "done"))

C36_Witness ==
    /\ pc = "done" /\ req.endpoint = "chat"
    /\ trace = <<"start_node", "parent_turn", "mrfrench_analysis", "mrfrench_response">>
    /\ llm_raw.kind = "raise"
    /\ llm_gen.kind = "raise"

(***************************************************************************)
(* Two chat requests in flight.  The request followed by pc, req and state *)
(* runs as before; a second one, kept in the variable other, runs the same *)
(* node functions on its own AgentState against the same stores, its steps *)
(* interleaved freely with the steps of the first.                         *)
(***************************************************************************)
SecondInput == T("bye")
SecondReply == [kind |-> "text", content |-> T("reply2")]

SecondOutputs ==
    {[kind |-> "raise"],
     [kind |-> "json", obj |-> [intent |-> T("ADD_TASK"), task |-> <<"a", "b", "c">>,
                                is_completed |-> T("Pending"), Due_Date |-> T("Today"),
                                Due_Time |-> T("evening"), Reward |-> T("None")]],
     [kind |-> "json", obj |-> [intent |-> T("GENERAL_CHAT")]]}

SecondChatRequest ==
    /\ other = NoOther
    /\ \E ct \in ChatTypes :
        other' = [pc |-> "start_node",
                  req |-> [endpoint |-> "chat", chat_type |-> ct, user_type |-> PARENT,
                           user_input |-> SecondInput],
                  state |-> [chat_type |-> ct, messages |-> <<>>, user_input |-> SecondInput,
                             mr_french_analysis |-> EmptyDict,
                             mr_french_task_action_response |-> <<>>,
                             current_speaker |-> PARENT, recipient |-> T("None")],
                  trace |-> <<>>, llm_raw |-> NoLLM, response |-> NoReturn]
    /\ UNCHANGED <<storeVars, reqVars, zoneVars>>

SecondRequestStep ==
    /\ \/ /\ other.pc = "start_node"
          /\ \E st \in {start_node(other.state)} :
                other' = [other EXCEPT !.state = st, !.trace = Append(@, "start_node"),
                                       !.pc = workflow("start_node", st)]
          /\ UNCHANGED storeVars
       \/ /\ other.pc = "parent_turn"
          /\ history' = AddAll(history, parent_turn_msgs(other.state), nextMsgId, TRUE)
          /\ nextMsgId' = nextMsgId + Len(parent_turn_msgs(other.state))
          /\ other' = [other EXCEPT !.state.current_speaker = PARENT,
                                    !.trace = Append(@, "parent_turn"),
                                    !.pc = workflow("parent_turn", other.state)]
          /\ UNCHANGED <<tasks, nextTaskId, clock>>
       \/ /\ other.pc = "mrfrench_analysis"
          /\ \E out \in SecondOutputs :
             \E r \in {mrfrench_analysis_node(other.state, out, tasks, nextTaskId, clock, TRUE)} :
                /\ tasks' = r.tbl
                /\ nextTaskId' = IF Cardinality(r.tbl) > Cardinality(tasks)
                                  THEN nextTaskId + 1 ELSE nextTaskId
                /\ clock' = IF r.tbl # tasks THEN clock + 1 ELSE clock
                /\ history' = AddAll(history, r.msgs, nextMsgId, TRUE)
                /\ nextMsgId' = nextMsgId + Len(r.msgs)
                /\ other' = [other EXCEPT !.state = r.st, !.llm_raw = out,
                                          !.trace = Append(@, "mrfrench_analysis"),
                                          !.pc = workflow("mrfrench_analysis", r.st)]
       \/ /\ other.pc = "mrfrench_response"
          /\ \E r \in {mrfrench_response_node(other.state, SecondReply)} :
                /\ history' = AddAll(history, r.msgs, nextMsgId, TRUE)
                /\ nextMsgId' = nextMsgId + Len(r.msgs)
                /\ other' = [other EXCEPT !.state = r.st,
                                          !.trace = Append(@, "mrfrench_response"),
                                          !.pc = workflow("mrfrench_response", r.st)]
          /\ UNCHANGED <<tasks, nextTaskId, clock>>
       \/ /\ other.pc = "END"
          /\ \E reply \in {response_message(other.req.chat_type,
                                              other.trace[Len(other.trace)], other.state)} :
             \E msgs \in {chat_endpoint_msgs(other.req.chat_type, other.req.user_type,
                                              other.req.user_input, reply)} :
                /\ history' = AddAll(history, msgs, nextMsgId, TRUE)
                /\ nextMsgId' = nextMsgId + Len(msgs)
                /\ other' = [other EXCEPT
                                !.response = IF other.req.chat_type = "parent-timmy"
                                             THEN [status |-> "ok", sender |-> TIMMY,
                                                   message |-> reply]
                                             ELSE [status |-> "ok",
                                                   user_type |-> other.req.user_type,
                                                   user_input |-> other.req.user_input,
                                                   ai_response |-> reply],
                                !.pc = "done"]
          /\ UNCHANGED <<tasks, nextTaskId, clock>>
    /\ UNCHANGED <<reqVars, zoneVars>>

\* One earlier request has been served; the two that follow overlap.
InitPair ==
    /\ tasks \in {{}, {SeedRow}}
    /\ nextTaskId = 2
    /\ clock = 2
    /\ history = [c \in Collections |-> <<>>]
    /\ nextMsgId = 1
    /\ pc = "idle"
    /\ req = NoRequest
    /\ state = NoState
    /\ trace = <<>>
    /\ llm_raw = NoLLM
    /\ llm_gen = NoLLM
    /\ llm_in = <<>>
    /\ gen_in = <<>>
    /\ response = NoReturn
    /\ env = IdleEnv
    /\ nreq = MaxRequests - 1
    /\ tasks0 = tasks
    /\ history0 = history
    /\ _timmy_zone = T("Green")
    /\ timmy = NULL
    /\ other = NoOther

SpecPair ==
    InitPair /\ [][ChatRequest \/ GraphStep \/ SecondChatRequest \/ SecondRequestStep]_vars

\* What a Conversation State may hold of its own request r, whose analysis
\* call produced out and whose reply is one of replies, after the nodes tr.
OwnAnalysis(st, out) ==
    Get(st.mr_french_analysis, "mr_french_analysis", NONE) \in
        (IF out.kind = "json" THEN {out.obj} ELSE {})
        \cup {[intent |-> T("NO_TASK_IDENTIFIED"), error |-> e] :
                    e \in {T("exception"), T("JSON Decode Error")}}

OwnState(st, r, out, tr, replies, foreign) ==
    /\ st.chat_type = r.chat_type
    /\ st.user_input = r.user_input
    /\ \A i \in 1..Len(st.messages) :
            /\ st.messages[i].content \in {r.user_input} \cup replies
            /\ st.messages[i].role = T("user") => st.messages[i].content = r.user_input
    /\ IF "mrfrench_analysis" \in Range(tr)
       THEN OwnAnalysis(st, out)
       ELSE st.mr_french_analysis = EmptyDict
    /\ Range(st.mr_french_task_action_response) \cap foreign = {}

OwnResponse(resp, r, replies) ==
    resp.status = "ok" =>
        IF r.chat_type = "parent-timmy"
        THEN resp.message = NO_RESPONSE
        ELSE resp.user_input = r.user_input /\ resp.ai_response \in replies

FirstReplies  == {T("reply"), RESPONSE_APOLOGY}
SecondReplies == {SecondReply.content}

\* C37: while two chat requests are in flight, the Conversation State of each
\* holds its own chat type and inbound text, messages that are its own inbound
\* text or its own reply, the analysis of its own LLM call, and a confirmation
\* free of the other request's text; what each returns is its own input and
\* its own reply.
C37_RequestsIsolated ==
    /\ req.endpoint = "chat" =>
          /\ OwnState(state, req, llm_raw, trace, FirstReplies,
                      {"bye", "reply2"})
          /\ OwnResponse(response, req, FirstReplies)
    /\ other # NoOther =>
          /\ OwnState(other.state, other.req, other.llm_raw, other.trace, SecondReplies,
                      {"hello", "reply"})
          /\ OwnResponse(other.response, other.req, SecondReplies)

C37_Witness ==
    /\ req.endpoint = "chat"
    /\ other # NoOther
    /\ pc = "done"
    /\ other.pc = "done"
    /\ req.chat_type = "parent-mrfrench"
    /\ other.req.chat_type = "parent-mrfrench"
    /\ response.ai_response = T("reply")
    /\ other.response.ai_response = T("reply2")
    /\ llm_raw.kind = "json"
    /\ other.llm_raw.kind = "json"
    /\ Get(llm_raw.obj, "intent", NONE) # Get(other.llm_raw.obj, "intent", NONE)
    /\ \E i, j, k \in 1..Len(history["parent-mrfrench"]) :
            /\ i < j /\ j < k
            /\ history["parent-mrfrench"][i].sender = T("hello")
            /\ history["parent-mrfrench"][j].sender = T("bye")
            /\ history["parent-mrfrench"][k].content = T("reply")

(***************************************************************************)
(* Two callers inside add_task at once.  add_task talks to Supabase twice: *)
(* find_similar_task reads the table, and the insert writes it; nothing    *)
(* holds the table between the two calls, so each is a step of its own.    *)
(* other[p] is caller p: where it stands in add_task, its task_data, and   *)
(* what it returned.                                                       *)
(***************************************************************************)
Callers == {1, 2}

InitAdd ==
    /\ tasks \in {{}, {SeedRow}}
    /\ nextTaskId = 2
    /\ clock = 2
    /\ history = [c \in Collections |-> <<>>]
    /\ nextMsgId = 1
    /\ pc = "idle"
    /\ req = NoRequest
    /\ state = NoState
    /\ trace = <<>>
    /\ llm_raw = NoLLM
    /\ llm_gen = NoLLM
    /\ llm_in = <<>>
    /\ gen_in = <<>>
    /\ response = NoReturn
    /\ env = IdleEnv
    /\ nreq = 0
    /\ tasks0 = tasks
    /\ history0 = history
    /\ _timmy_zone = T("Green")
    /\ timmy = NULL
    /\ other \in [Callers ->
                    {[pc |-> "find_similar_task",
                      task_data |-> [task |-> n, is_completed |-> c, Due_Date |-> T("Today"),
                                     Due_Time |-> T("evening"), Reward |-> T("None")],
                      result |-> NoReturn] :
                        n \in TaskNames, c \in {T("Pending"), T("Progress")}}]

\* similar = find_similar_task(task_data['task']); if similar: return the error.
AddTaskCheck ==
    /\ \E p \in Callers :
        /\ other[p].pc = "find_similar_task"
        /\ \E similar \in {find_similar_task(tasks, other[p].task_data["task"], TRUE)} :
              other' = [other EXCEPT
                          ![p].pc = IF similar # <<>> THEN "done" ELSE "insert",
                          ![p].result = IF similar # <<>>
                                        THEN [kind |-> "error",
                                              error |-> T("This task already exists.")]
                                        ELSE NoReturn]
    /\ UNCHANGED <<storeVars, reqVars, zoneVars>>

\* supabase.table("tasks").insert(task_data).execute(); return response.data[0].
AddTaskInsert ==
    /\ \E p \in Callers :
        /\ other[p].pc = "insert"
        /\ \E row \in {NewRow(other[p].task_data, nextTaskId, clock)} :
            /\ tasks' = tasks \cup {row}
            /\ other' = [other EXCEPT ![p].pc = "done",
                                      ![p].result = [kind |-> "row", row |-> row]]
    /\ nextTaskId' = nextTaskId + 1
    /\ clock' = clock + 1
    /\ UNCHANGED <<history, nextMsgId, reqVars, zoneVars>>

SpecAdd == InitAdd /\ [][AddTaskCheck \/ AddTaskInsert]_vars

\* Two names are similar when find_similar_task, run on a table holding the
\* one, finds it for the other.
SimilarNames(a, b) == find_similar_task({[SeedRow EXCEPT !.task = a]}, b, TRUE) # <<>>

ConcurrentSimilarAdds ==
    /\ DOMAIN other = Callers
    /\ \A p \in Callers : other[p].pc = "done"
    /\ SimilarNames(other[1].task_data["task"], other[2].task_data["task"])
    /\ \A p \in Callers : find_similar_task(tasks0, other[p].task_data["task"], TRUE) = <<>>

\* C38: when two concurrent add_task calls carry names similar to each other
\* and to no stored task, at most one row is inserted, however the similarity
\* checks and the inserts interleave.
C38_AtMostOneInserted ==
    ConcurrentSimilarAdds => Cardinality(tasks \ tasks0) <= 1

\* C39: after any sequence of sequential ADD_TASK, UPDATE_TASK and DELETE_TASK
\* operations, no two stored tasks have names of similarity 0.8 or more,
\* an UPDATE_TASK whose updates map changes the name included.
C39_NoSimilarPair ==
    \A r1, r2 \in tasks : r1.id # r2.id => ~SimilarNames(r1.task, r2.task)

====
